---- MODULE Spec2Model ----
(***************************************************************************)
(* QR credential lifecycle of the virtual-concierge backend: issue-visit,  *)
(* consume, revoke, landing scan and the fast-path log-open endpoint,      *)
(* each request running in its own persistence session against the        *)
(* committed tables qr_tokens, access_credentials, access_logs and         *)
(* audit_logs; the provisioning loop of issue-visit against the biometric  *)
(* devices and the access-device client.                                   *)
(***************************************************************************)
EXTENDS Integers, Sequences, FiniteSets, TLC

\* ------------------------------------------------------------------ bounds
MaxTokens == 1      \* issue-visit requests that persist a token
MaxOps == 3         \* consume / revoke / scan / log-open requests
MaxInFlight == 2    \* requests whose sessions are open at the same time
MaxTime == 1        \* last instant of the clock
MaxMsgs == 3        \* calls of execute_fast_open
MaxAudited == 2     \* matched fast commands handled up to their reply
MaxFastTime == 5    \* last instant of the WhatsApp service's clock
MaxChunks == 3      \* audio chunks the model sends during the call
MaxSpeechEvents == 2   \* speech_started events during the call
MaxVoiceTime == 5   \* last instant of the voice bridge's clock
\* settings of the voice bridge, scaled down
QueueMaxsize == 2        \* output_audio_queue_maxsize (the code: at least 100)
PREBUFFER_FRAMES == 2    \* playback_prebuffer_frames
MAX_SILENCE_FRAMES == 2  \* silent frames that end a playout (the code: at least 10)
MaxInbound == 4          \* frames the telephony side sends during the call
AudioBufferMaxsize == 2  \* maxsize of CallSession.audio_buffer (the code: 25)
MaxCalls == 3            \* function calls the model makes during the call

\* ------------------------------------------------------- values and inputs
Null == 0 - 100                       \* Python None in an Optional[int] / Optional[datetime]
NoneStr == "None"                     \* Python None in an Optional[str]

Tenants == {"t1", "t2"}               \* x-tenant-id header values
Residents == {"r1", "r2"}             \* resident ids
IssueTenants == {"t1"}                \* tenants that issue tokens
IssueResidents == {"r1"}              \* residents that issue tokens
ACCESS_POINTS == {"vehicular_entry", "vehicular_exit", "pedestrian"}
Directions == {"entry"}                \* direction of the modelled consume requests (the default)
\* access points the modelled callers present
RequestPoints == {"vehicular_entry", "pedestrian"}

\* max_uses values a request body may carry: Optional[int] without constraint
MaxUsesInputs == {Null, 0 - 1, 1, 2}

\* allowed_access_points lists a request body may carry
AllowedInputs ==
    { <<"vehicular_entry", "pedestrian", "vehicular_entry">>,
      <<"pedestrian">>,
      <<"garage">> }

\* a datetime is an instant t read on a wall clock with UTC offset tz
\* (tz = Null: naive)
TzInputs == {Null, 1}
ValidUntilInputs == [t : {MaxTime + 1}, tz : TzInputs]
ValidFromInputs == {[t |-> Null, tz |-> Null], [t |-> MaxTime, tz |-> Null]}

TokenIds == 1..MaxTokens              \* printable token of the k-th issued QrToken
TokenInputs == 1..MaxTokens           \* token strings a caller may present (issued or not yet)
ReqIds == 1..MaxOps

\* issue-visit provisioning
ProvisionAttempts == 10               \* for _ in range(10)
CardNos == {"1111111111", "2222222222"}   \* values _random_digits may draw
BioDevices == {"hik_bio1_host", "hik_bio2_host"}

\* what a device may answer to one HTTP request: a status and a body, or
\* nothing at all (timeout, connection error)
NetworkError == [status |-> Null, body |-> ""]
HttpReplies ==
    { [status |-> 200, body |-> "{statusCode: 1}"],
      [status |-> 200, body |-> "<html>"],
      [status |-> 204, body |-> ""],
      [status |-> 400, body |-> "{statusCode: 1}"],
      NetworkError }

\* requests the issue-visit callers of the provisioning model send
ProvisionPoints == {<<"pedestrian">>, <<"garage">>}
ProvisionMaxUses == {1}

\* a panel is the set of open-door requests its firmware accepts, by method
\* tag: the strict RemoteControlDoor PUT, the versioned payload, the IO
\* trigger, the IO output port, and the strict body sent by the curl
\* subprocess.  open_gate sends the first and the last only.
PanelRequests == {"access_control", "access_control_v2", "io_trigger",
                  "alarm_output", "curl_digest"}
Panels == SUBSET PanelRequests
DoorIds == {1, 2}

\* the life of a call
\* how the telephony side ends a call: a 0x00 frame, a 0x02 frame, the TCP
\* connection closing
TelephonyEndings == {"hangup", "error", "closed"}
\* the arguments of a function call: a JSON object, text that is no JSON,
\* JSON that is no object (the tool raises on it)
ToolArguments == {"object", "not_json", "not_an_object"}
\* what the backend may answer to POST /api/v1/gates/open before it reaches
\* the device (404, 400, 422), or nothing at all (Null)
GateErrors == {404, 400, 422, Null}

\* the voice bridge
audio_sample_rate == 8000             \* settings.audio_sample_rate
DEFAULT_CHUNK_MS == 20
BYTES_PER_SAMPLE == 2
InboundLengths == {320, 640, 321}     \* byte lengths of the frames Asterisk sends
BARGE_IN_GRACE == 2                   \* 0.5 s, in clock steps of 250 ms
DeltaChunks == {0, 1, 2}              \* chunks one response.audio.delta carries
DoneEvents == {"response.audio.done", "response.done", "response.audio_transcript.done"}

\* the WhatsApp fast path
FAST_OPEN_COOLDOWN_SECONDS == 4       \* settings.FAST_OPEN_COOLDOWN_SECONDS
FastTargets == {"vehicular_entry_panel", "pedestrian_gate"}
\* what a device may answer to one PUT: an HTTP status, or nothing (Null)
FastStatuses == {200, 201, 400, Null}

\* ----------------------------------------------------------- pure helpers
\* _to_naive_utc: aware datetimes are converted to UTC and lose the zone,
\* naive ones are taken as they are
_to_naive_utc(dt) == IF dt.tz # Null THEN dt.t - dt.tz ELSE dt.t

Range(s) == {s[i] : i \in 1..Len(s)}

RECURSIVE DeDupe(_, _)
DeDupe(points, out) ==
    IF points = <<>> THEN out
    ELSE IF Head(points) \in Range(out) THEN DeDupe(Tail(points), out)
         ELSE DeDupe(Tail(points), Append(out, Head(points)))

\* _validate_access_points: "invalid" when a point is outside ACCESS_POINTS,
\* otherwise the list without duplicates in first-occurrence order
_validate_access_points(points) ==
    IF \E i \in 1..Len(points) : points[i] \notin ACCESS_POINTS
    THEN <<"invalid">>
    ELSE DeDupe(points, <<>>)

\* door mapping of consume_qr: access point -> (settings host, door index)
DoorOf(access_point) ==
    IF access_point = "vehicular_entry" THEN [host |-> "hik_panel_host", door_id |-> 1]
    ELSE IF access_point = "vehicular_exit" THEN [host |-> "hik_panel_host", door_id |-> 2]
    ELSE IF access_point = "pedestrian" THEN [host |-> "hik_pedestrian_host", door_id |-> 1]
    ELSE [host |-> "hik_panel_host", door_id |-> 1]

\* HikvisionGateClient.open_gate outcomes: the RemoteControlDoor PUT
\* succeeds, or the curl digest fallback succeeds, or both fail
GateResults ==
    { [success |-> TRUE, method |-> "access_control"],
      [success |-> TRUE, method |-> "curl_digest"],
      [success |-> FALSE, method |-> NoneStr] }

\* ------------------------------------------------------------------- state
VARIABLES
    now,                 \* UTC clock
    qr_tokens,           \* committed qr_tokens rows, by token
    access_credentials,  \* committed access_credentials rows, by credential id
    access_logs,         \* committed access_logs rows
    audit_logs,          \* committed audit_logs rows
    sessions,            \* open persistence sessions, by request id
    row_lock,            \* holder of the row lock of each qr_tokens row (0: free)
    gate_calls,          \* open-door calls made on access devices
    next_req,            \* next request id
    response,            \* the latest response sent to a caller
    accepted_count,      \* per token: consume responses with accepted=true
    \* issue-visit, step by step (qr.py issue_visit_qr)
    prov,                \* the issue-visit request being served
    bio_calls,           \* per biometric device: create_user_and_card calls of that request
    visitors,            \* committed visitors rows (count)
    card_nos,            \* card_no persisted in each QrToken (extra_data.card_no), by token
    returned_card_no,    \* card_no of the latest IssueVisitQrResponse
    \* the access-device client (hikvision/client.py open_gate)
    gate_client,         \* one open_gate call: the panel, the requests sent, the result
    \* the WhatsApp fast path (whatsapp-service fast_path.py, webhook_handler.py)
    fast_now,            \* time.time() of the WhatsApp service, in seconds
    _last_open_ts,       \* per target: when the last open was recorded (Null: never)
    msgs,                \* the matched fast commands, in order of arrival
    \* one call of the voice bridge (voice-service call_session.py)
    voice_now,           \* time.time(), in steps of 250 ms
    output_audio_queue,  \* chunks queued for playout, oldest first
    ai_speaking,         \* CallSession.ai_speaking
    last_ai_audio_time,  \* CallSession.last_ai_audio_time
    playback_active,     \* CallSession.playback_active
    playout,             \* locals of _playback_audio: playing, prebuffer, consecutive_silence
    chunks_in,           \* chunks received from the model so far
    chunks_dropped,      \* CallSession.chunks_dropped
    played,              \* chunks sent to the telephony side, in order
    barge_in,            \* the speech_started events handled: how many, the last outcome
    chunk_bytes,         \* CallSession.chunk_bytes
    detected_sample_rate,   \* CallSession._detected_sample_rate
    audio_buffer,        \* CallSession.audio_buffer: inbound frames waiting to be forwarded
    frames_in,           \* frames received from the telephony side so far
    forwarded,           \* frames sent to the model as input_audio_buffer.append, in order
    frame_sizes,         \* of every frame written to the telephony socket: its length and chunk_bytes then
    \* the life of one call (voice-service main.py, audio_bridge.py, call_session.py)
    call,                \* the registries, the sockets and the tasks of the call
    model_events,        \* function-call events the model sent, not yet read by the listener
    handler,             \* _handle_function_call: its position and the call it serves
    tool_log,            \* tool executions started and items sent to the model, in order
    \* the voice agent's open_gate tool (voice-service tools.py, backend gates.py)
    gate_tool            \* one open_gate tool call: the backend's answer, the tool's result

qr_vars == <<now, qr_tokens, access_credentials, access_logs, audit_logs,
             sessions, row_lock, gate_calls, next_req, response, accepted_count>>

issue_vars == <<prov, bio_calls, visitors, card_nos, returned_card_no>>

fast_vars == <<fast_now, _last_open_ts, msgs>>

\* the variables outside the QR endpoints / outside issue-visit
audio_vars == <<chunk_bytes, detected_sample_rate, audio_buffer, frames_in, forwarded>>

voice_vars == <<voice_now, output_audio_queue, ai_speaking, last_ai_audio_time,
                playback_active, playout, chunks_in, chunks_dropped, played,
                barge_in, audio_vars, frame_sizes>>

call_vars == <<call, model_events, handler, tool_log>>

ext_vars == <<issue_vars, gate_client, fast_vars, voice_vars, call_vars, gate_tool>>
other_vars == <<gate_client, fast_vars, voice_vars, call_vars, gate_tool>>

vars == <<qr_vars, issue_vars, gate_client, fast_vars, voice_vars, call_vars, gate_tool>>

NoResponse ==
    [req |-> 0, kind |-> "none", code |-> 0, detail |-> "", token |-> 0,
     tenant |-> "", access_point |-> "",
     accepted |-> FALSE, use_count |-> 0, max_uses |-> Null,
     gate_opened |-> FALSE, gate_method |-> NoneStr]

NoRow ==
    [condominium_id |-> "", resident_id |-> "", credential_id |-> 0,
     allowed_access_points |-> <<>>, expires_at |-> 0, used_at |-> Null,
     revoked_at |-> Null, max_uses |-> Null, use_count |-> 0]

NoCred ==
    [condominium_id |-> "", status |-> "", used_at |-> Null,
     revoked_at |-> Null, max_uses |-> Null, use_count |-> 0]

\* ---------------------------------------------------------------- sessions
\* get_session: one AsyncSession per request.  Changes made through it stay
\* private until its commit; an exception leaving the handler rolls it back.
Idle ==
    [kind |-> "idle", pc |-> "idle", token |-> 0, tenant |-> "",
     resident |-> "", access_point |-> "", direction |-> "", at |-> 0,
     qr |-> NoRow, qr_read |-> NoRow, qr_dirty |-> FALSE,
     holds_lock |-> FALSE,
     cred |-> NoCred, cred_loaded |-> FALSE, cred_status0 |-> "",
     gate |-> [success |-> FALSE, method |-> NoneStr],
     scan_status |-> "", pending_access |-> {}, pending_audit |-> {}]

\* ------------------------------------------------- device client: requests
\* HikvisionGateClient._request: the dict built from the device's answer
_request(reply) ==
    IF reply = NetworkError
    THEN [success |-> FALSE, status |-> Null, body |-> ""]
    ELSE [success |-> reply.status \in {200, 204}, status |-> reply.status,
          body |-> reply.body]

NoResult == [success |-> FALSE, status |-> Null, body |-> ""]

\* json.loads(body).get("statusCode"); Null when the body is not a JSON
\* object or has no such key
JsonStatusCode(body) ==
    IF body = "{statusCode: 1}" THEN 1 ELSE Null

\* create_user_and_card._status_ok
_status_ok(resp) ==
    IF ~resp.success THEN FALSE
    ELSE IF JsonStatusCode(resp.body) = 1 THEN TRUE
    ELSE TRUE

\* create_user_and_card: the value returned once both requests were answered
create_user_and_card(device, user, card) ==
    [device |-> device, success |-> _status_ok(user) /\ _status_ok(card),
     user |-> user, card |-> card]

NoCreated == [device |-> "", success |-> FALSE, user |-> NoResult, card |-> NoResult]

NoIssueReq ==
    [tenant |-> "", resident |-> "", points |-> <<>>,
     valid_from |-> [t |-> Null, tz |-> Null],
     valid_until |-> [t |-> Null, tz |-> Null], max_uses |-> Null]

\* the local variables of issue_visit_qr
NoProv ==
    [pc |-> "idle", req |-> NoIssueReq, flushed |-> {}, attempts |-> 0,
     candidate |-> NoneStr, user |-> NoResult, created |-> NoCreated,
     r1 |-> FALSE, r2 |-> FALSE, card_no |-> NoneStr, provisioned_ok |-> FALSE,
     accepted_by_all |-> {}]

NoBioCalls == [d \in BioDevices |-> [calls |-> 0, card_no |-> NoneStr, ok |-> FALSE]]

\* no open_gate call in progress
NoGateCall ==
    [pc |-> "idle", door_id |-> 0, panel |-> {}, sent |-> <<>>,
     result |-> [success |-> FALSE, method |-> NoneStr]]

GateInit == gate_client = NoGateCall

\* CallSession.__init__ line 134 and _detect_sample_rate lines 802-804
ChunkBytes(rate) == (rate * DEFAULT_CHUNK_MS * BYTES_PER_SAMPLE) \div 1000

\* _playback_audio line 653: built once, when the playout task starts, which
\* is before the first inbound frame can reach the callback
silence_chunk == ChunkBytes(audio_sample_rate)

\* no call yet
NoCall ==
    [telephony |-> "none", bridge_session |-> FALSE, active_session |-> FALSE,
     start |-> "none", running |-> FALSE, ws |-> "none", dials |-> 0,
     listener |-> "none", streamer |-> "none", playback |-> "none"]

NoHandler == [pc |-> "idle", call_id |-> 0, arguments |-> ""]

CallInit ==
    /\ call = NoCall
    /\ model_events = <<>>
    /\ handler = NoHandler
    /\ tool_log = <<>>

\* no open_gate tool call yet
NoGateTool == [pc |-> "idle", status |-> Null, body_success |-> FALSE, success |-> FALSE]

\* the playout loop before the first chunk
NoPlayout == [pc |-> "idle", prebuffer |-> <<>>, consecutive_silence |-> 0]

NoBargeIn == [events |-> 0, outcome |-> "", cleared |-> 0]

\* CallSession.__init__, lines 118-129; time.time() is far beyond the grace
\* interval when the call starts
VoiceInit ==
    /\ voice_now = BARGE_IN_GRACE
    /\ output_audio_queue = <<>>
    /\ ai_speaking = FALSE
    /\ last_ai_audio_time = 0
    /\ playback_active = FALSE
    /\ playout = NoPlayout
    /\ chunks_in = 0
    /\ chunks_dropped = 0
    /\ played = <<>>
    /\ barge_in = NoBargeIn
    /\ chunk_bytes = ChunkBytes(audio_sample_rate)
    /\ detected_sample_rate = FALSE
    /\ audio_buffer = <<>>
    /\ frames_in = 0
    /\ forwarded = <<>>
    /\ frame_sizes = {}

\* no fast command received yet
NoMsg ==
    [pc |-> "none", target |-> "", start |-> 0, debounced |-> FALSE,
     ok |-> FALSE, msg |-> "", access_point |-> NoneStr,
     attempt |-> 0, body |-> 0, puts |-> 0,
     audit_req |-> 0, audit |-> "", reply |-> ""]

FastInit ==
    /\ fast_now = 1
    /\ _last_open_ts = [t \in FastTargets |-> Null]
    /\ msgs = [m \in 1..MaxMsgs |-> NoMsg]

IssueInit ==
    /\ prov = NoProv
    /\ bio_calls = NoBioCalls
    /\ visitors = 0
    /\ card_nos = <<>>
    /\ returned_card_no = NoneStr

Init ==
    /\ IssueInit
    /\ GateInit
    /\ FastInit
    /\ VoiceInit
    /\ CallInit
    /\ gate_tool = NoGateTool
    /\ now = 0
    /\ qr_tokens = <<>>
    /\ access_credentials = <<>>
    /\ access_logs = {}
    /\ audit_logs = {}
    /\ sessions = [r \in ReqIds |-> Idle]
    /\ row_lock = [t \in TokenIds |-> 0]
    /\ gate_calls = {}
    /\ next_req = 1
    /\ response = NoResponse
    /\ accepted_count = [t \in TokenIds |-> 0]

\* the wall clock advances
Tick ==
    /\ now < MaxTime
    /\ now' = now + 1
    /\ UNCHANGED <<qr_tokens, access_credentials, access_logs, audit_logs,
                   sessions, row_lock, gate_calls, next_req, response,
                   accepted_count>>

\* ------------------------------------------------------------- issue-visit
\* rows are identified by the request that wrote them and their ordinal in it
AuditRow(req, n, tenant, action, resource, status, message) ==
    [id |-> <<req, n>>, condominium_id |-> tenant, action |-> action,
     resource_id |-> resource, status |-> status, message |-> message,
     gate_opened |-> NoneStr]

IssueResponse(code, detail, tok, tenant, resident, mu) ==
    [NoResponse EXCEPT !.req = 0 - (Len(qr_tokens) + 1), !.kind = "issue",
                       !.code = code, !.detail = detail, !.token = tok,
                       !.tenant = tenant, !.max_uses = mu]

\* issue_visit_qr: validation, Visitor + AccessCredential + QrToken + AuditLog
\* in one transaction that commits only when the biometric devices accepted
\* a card number
issue_visit_qr(tenant, resident, points, valid_from_in, valid_until_in, max_uses, provisioned_ok) ==
    LET allowed == _validate_access_points(points)
        valid_from == IF valid_from_in.t # Null THEN _to_naive_utc(valid_from_in) ELSE now
        valid_until == _to_naive_utc(valid_until_in)
        tok == Len(qr_tokens) + 1
    IN  /\ Len(qr_tokens) < MaxTokens
        /\ UNCHANGED <<now, access_logs, sessions, row_lock, gate_calls,
                       next_req, accepted_count>>
        /\ IF allowed = <<"invalid">>
           THEN /\ response' = IssueResponse(400, "Invalid access point", 0, tenant, resident, max_uses)
                /\ UNCHANGED <<qr_tokens, access_credentials, audit_logs>>
           ELSE IF valid_until <= valid_from
           THEN /\ response' = IssueResponse(400, "valid_until must be after valid_from", 0, tenant, resident, max_uses)
                /\ UNCHANGED <<qr_tokens, access_credentials, audit_logs>>
           ELSE IF ~provisioned_ok
           THEN /\ response' = IssueResponse(502, "Failed to provision", 0, tenant, resident, max_uses)
                /\ UNCHANGED <<qr_tokens, access_credentials, audit_logs>>
           ELSE /\ access_credentials' = Append(access_credentials,
                        [condominium_id |-> tenant, status |-> "active",
                         used_at |-> Null, revoked_at |-> Null,
                         max_uses |-> max_uses, use_count |-> 0])
                /\ qr_tokens' = Append(qr_tokens,
                        [condominium_id |-> tenant, resident_id |-> resident,
                         credential_id |-> tok, allowed_access_points |-> allowed,
                         expires_at |-> valid_until, used_at |-> Null,
                         revoked_at |-> Null, max_uses |-> max_uses,
                         use_count |-> 0])
                /\ audit_logs' = audit_logs \cup
                        {AuditRow(0 - tok, 1, tenant, "issue_qr", tok, "success",
                                  "QR issued and provisioned to biometrics")}
                /\ response' = IssueResponse(200, "issued", tok, tenant, resident, max_uses)

Issue ==
    \E tenant \in IssueTenants, resident \in IssueResidents, points \in AllowedInputs,
       vf \in ValidFromInputs, vu \in ValidUntilInputs,
       mu \in MaxUsesInputs, ok \in BOOLEAN :
        issue_visit_qr(tenant, resident, points, vf, vu, mu, ok)

InFlight == {r \in ReqIds : sessions[r].pc # "idle"}

\* select(QrToken).where(QrToken.token == token) over the committed rows
QrFound(tok) == tok \in 1..Len(qr_tokens)
SelectQr(tok) == IF QrFound(tok) THEN qr_tokens[tok] ELSE NoRow

\* select(AccessCredential).where(AccessCredential.id == credential_id)
CredFound(cid) == cid \in 1..Len(access_credentials)
SelectCred(cid) == IF CredFound(cid) THEN access_credentials[cid] ELSE NoCred

Err(code, detail) == [code |-> code, detail |-> detail]
Ok == Err(200, "ok")

MakeResponse(req, kind, err, s) ==
    [NoResponse EXCEPT !.req = req, !.kind = kind, !.code = err.code,
                       !.detail = err.detail, !.token = s.token,
                       !.tenant = s.tenant,
                       !.access_point = s.access_point]

AccessRow(req, n, tenant, event_type, access_point, method, tok, opened) ==
    [id |-> <<req, n>>, condominium_id |-> tenant, event_type |-> event_type,
     access_point |-> access_point, authorization_method |-> method,
     token_id |-> tok, gate_opened |-> opened]

\* an HTTPException raised before the handler changed anything: get_session
\* rolls the session back and the error response is sent
RaiseLoggingDenied(resp) ==
    /\ response' = resp
    /\ access_logs' = access_logs \cup
           {AccessRow(resp.req, 1, resp.tenant, "denied", resp.access_point,
                      "qr", resp.token, FALSE)}
    /\ UNCHANGED <<qr_tokens, access_credentials, audit_logs, gate_calls,
                   sessions, row_lock, accepted_count>>

Raise(resp) ==
    /\ response' = resp
    /\ UNCHANGED <<qr_tokens, access_credentials, access_logs, audit_logs,
                   gate_calls, sessions, row_lock, accepted_count>>

\* ------------------------------------------------------------------ consume
\* consume_qr, lines 123-142: the precondition checks in source order
ConsumeCheckExpiredFirst(tok, tenant, access_point, t) ==
    LET qr == SelectQr(tok) IN
    IF ~QrFound(tok) \/ qr.condominium_id # tenant THEN Err(404, "QR not found")
    ELSE IF _to_naive_utc([t |-> qr.expires_at, tz |-> Null]) <= t THEN Err(410, "QR expired")
    ELSE IF qr.revoked_at # Null THEN Err(410, "QR revoked")
    ELSE IF access_point \notin Range(qr.allowed_access_points)
         THEN Err(403, "Access point not allowed")
    ELSE IF qr.max_uses # Null /\ qr.use_count >= qr.max_uses
         THEN Err(410, "QR usage limit reached")
    ELSE Ok

ConsumeCheckOffByOne(tok, tenant, access_point, t) ==
    LET qr == SelectQr(tok) IN
    IF ~QrFound(tok) \/ qr.condominium_id # tenant THEN Err(404, "QR not found")
    ELSE IF qr.revoked_at # Null THEN Err(410, "QR revoked")
    ELSE IF _to_naive_utc([t |-> qr.expires_at, tz |-> Null]) <= t THEN Err(410, "QR expired")
    ELSE IF access_point \notin Range(qr.allowed_access_points)
         THEN Err(403, "Access point not allowed")
    ELSE IF qr.max_uses # Null /\ qr.use_count > qr.max_uses
         THEN Err(410, "QR usage limit reached")
    ELSE Ok

ConsumeCheck(tok, tenant, access_point, t) ==
    LET qr == SelectQr(tok) IN
    IF ~QrFound(tok) \/ qr.condominium_id # tenant THEN Err(404, "QR not found")
    ELSE IF qr.revoked_at # Null THEN Err(410, "QR revoked")
    ELSE IF _to_naive_utc([t |-> qr.expires_at, tz |-> Null]) <= t THEN Err(410, "QR expired")
    ELSE IF access_point \notin Range(qr.allowed_access_points)
         THEN Err(403, "Access point not allowed")
    ELSE IF qr.max_uses # Null /\ qr.use_count >= qr.max_uses
         THEN Err(410, "QR usage limit reached")
    ELSE Ok

\* consume_qr up to the await of the credential lookup: token select,
\* checks, and the counters updated on the session's copy of the row
ConsumeBegin(tok, tenant, access_point, direction) ==
    LET r == next_req
        err == ConsumeCheck(tok, tenant, access_point, now)
        qr == SelectQr(tok)
        s == [Idle EXCEPT !.kind = "consume", !.token = tok, !.tenant = tenant,
                          !.access_point = access_point,
                          !.direction = direction, !.at = now]
    IN  /\ next_req <= MaxOps
        /\ next_req' = r + 1
        /\ UNCHANGED now
        /\ IF err.code # 200
           THEN Raise(MakeResponse(r, "consume", err, s))
           ELSE /\ sessions' = [sessions EXCEPT ![r] =
                      [s EXCEPT !.pc = "cred_lookup", !.qr_read = qr,
                                !.qr = [qr EXCEPT !.use_count = qr.use_count + 1,
                                                  !.used_at = now],
                                !.qr_dirty = TRUE]]
                /\ UNCHANGED <<qr_tokens, access_credentials, access_logs,
                               audit_logs, gate_calls, row_lock, response,
                               accepted_count>>

\* lines 150-158: the credential select flushes the pending UPDATE of the
\* token row first (it waits for the row lock), then mirrors the use
MirrorUse(cred, at) ==
    LET n == cred.use_count + 1 IN
    [cred EXCEPT !.use_count = n, !.used_at = at,
                 !.status = IF cred.max_uses # Null /\ n >= cred.max_uses
                            THEN "used" ELSE cred.status]

ConsumeCredLookup(r) ==
    LET s == sessions[r]
        cred == SelectCred(s.qr.credential_id)
        mine == s.qr.credential_id # 0 /\ CredFound(s.qr.credential_id)
                /\ cred.condominium_id = s.tenant
    IN  /\ s.kind = "consume" /\ s.pc = "cred_lookup"
        /\ row_lock[s.token] = 0
        /\ row_lock' = [row_lock EXCEPT ![s.token] = r]
        /\ sessions' = [sessions EXCEPT ![r] =
               [s EXCEPT !.pc = "open_gate", !.holds_lock = TRUE,
                         !.cred = IF mine THEN MirrorUse(cred, s.at) ELSE cred,
                         !.cred_loaded = mine,
                         !.cred_status0 = cred.status]]
        /\ UNCHANGED <<now, qr_tokens, access_credentials, access_logs,
                       audit_logs, gate_calls, next_req, response,
                       accepted_count>>

\* lines 160-232: the device call and the two log rows added to the session
ConsumeOpenGate(r, gate_result) ==
    LET s == sessions[r]
        door == DoorOf(s.access_point)
        gate_opened == gate_result.success
        gate_method == IF gate_opened THEN gate_result.method ELSE NoneStr
    IN  /\ s.kind = "consume" /\ s.pc = "open_gate"
        /\ gate_calls' = gate_calls \cup
               {[req |-> r, token |-> s.token, host |-> door.host,
                 door_id |-> door.door_id, success |-> gate_result.success]}
        /\ sessions' = [sessions EXCEPT ![r] =
               [s EXCEPT !.pc = "commit",
                         !.gate = [success |-> gate_opened, method |-> gate_method],
                         !.pending_access = {AccessRow(r, 1, s.tenant, s.direction,
                                                s.access_point, "qr", s.token,
                                                gate_opened)},
                         !.pending_audit = {[AuditRow(r, 1, s.tenant, "consume_qr",
                                                s.token,
                                                IF gate_opened THEN "success" ELSE "failure",
                                                "consumed")
                                             EXCEPT !.gate_opened = ToString(gate_opened)]}]]
        /\ UNCHANGED <<now, qr_tokens, access_credentials, access_logs,
                       audit_logs, row_lock, next_req, response, accepted_count>>

\* session.commit(): the changed columns and the added rows become visible
\* together and the row locks are released
CommitTables(s) ==
    /\ qr_tokens' =
           IF s.qr_dirty
           THEN [qr_tokens EXCEPT
                    ![s.token] =
                        [@ EXCEPT !.use_count = IF s.kind = "consume" THEN s.qr.use_count ELSE @,
                                  !.used_at = IF s.kind = "consume" THEN s.qr.used_at ELSE @,
                                  !.revoked_at = IF s.kind = "revoke" THEN s.qr.revoked_at ELSE @]]
           ELSE qr_tokens
    /\ access_credentials' =
           IF s.cred_loaded
           THEN [access_credentials EXCEPT
                    ![s.qr.credential_id] =
                        [@ EXCEPT !.use_count = IF s.kind = "consume" THEN s.cred.use_count ELSE @,
                                  !.used_at = IF s.kind = "consume" THEN s.cred.used_at ELSE @,
                                  !.revoked_at = IF s.kind = "revoke" THEN s.cred.revoked_at ELSE @,
                                  !.status = IF s.cred.status # s.cred_status0
                                             THEN s.cred.status ELSE @]]
           ELSE access_credentials
    /\ access_logs' = access_logs \cup s.pending_access
    /\ audit_logs' = audit_logs \cup s.pending_audit

ReleaseLock(r) ==
    row_lock' = [t \in TokenIds |-> IF row_lock[t] = r THEN 0 ELSE row_lock[t]]

ConsumeCommitOnlyWhenOpened(r) ==
    LET s == sessions[r] IN
        /\ s.kind = "consume" /\ s.pc = "commit"
        /\ ReleaseLock(r)
        /\ sessions' = [sessions EXCEPT ![r] = Idle]
        /\ UNCHANGED <<now, gate_calls, next_req>>
        /\ IF s.gate.success
           THEN /\ CommitTables(s)
                /\ response' = [MakeResponse(r, "consume", Ok, s) EXCEPT
                                    !.accepted = TRUE, !.use_count = s.qr.use_count,
                                    !.max_uses = s.qr.max_uses,
                                    !.gate_opened = s.gate.success,
                                    !.gate_method = s.gate.method]
                /\ accepted_count' = [accepted_count EXCEPT ![s.token] = @ + 1]
           ELSE /\ response' = MakeResponse(r, "consume", Err(502, "gate did not open"), s)
                /\ UNCHANGED <<qr_tokens, access_credentials, access_logs,
                               audit_logs, accepted_count>>

\* lines 234-245
ConsumeCommit(r) ==
    LET s == sessions[r] IN
        /\ s.kind = "consume" /\ s.pc = "commit"
        /\ CommitTables(s)
        /\ ReleaseLock(r)
        /\ sessions' = [sessions EXCEPT ![r] = Idle]
        /\ response' = [MakeResponse(r, "consume", Ok, s) EXCEPT
                            !.accepted = TRUE, !.use_count = s.qr.use_count,
                            !.max_uses = s.qr.max_uses,
                            !.gate_opened = s.gate.success,
                            !.gate_method = s.gate.method]
        /\ accepted_count' = [accepted_count EXCEPT ![s.token] = @ + 1]
        /\ UNCHANGED <<now, gate_calls, next_req>>

\* ------------------------------------------------------------------- revoke
\* revoke_qr, lines 78-85
RevokeCheck(tok, tenant, resident) ==
    LET qr == SelectQr(tok) IN
    IF ~QrFound(tok) \/ qr.condominium_id # tenant THEN Err(404, "QR not found")
    ELSE IF qr.resident_id # resident
         THEN Err(403, "Cannot revoke QR not issued by you")
    ELSE Ok

\* lines 78-89: token select, checks, revoked_at stamped when still unset
RevokeBegin(tok, tenant, resident) ==
    LET r == next_req
        err == RevokeCheck(tok, tenant, resident)
        qr == SelectQr(tok)
        s == [Idle EXCEPT !.kind = "revoke", !.token = tok, !.tenant = tenant,
                          !.resident = resident, !.at = now]
    IN  /\ next_req <= MaxOps
        /\ next_req' = r + 1
        /\ UNCHANGED now
        /\ IF err.code # 200
           THEN Raise(MakeResponse(r, "revoke", err, s))
           ELSE /\ sessions' = [sessions EXCEPT ![r] =
                      [s EXCEPT !.pc = "cred_lookup", !.qr_read = qr,
                                !.qr = IF qr.revoked_at = Null
                                       THEN [qr EXCEPT !.revoked_at = now]
                                       ELSE qr,
                                !.qr_dirty = (qr.revoked_at = Null)]]
                /\ UNCHANGED <<qr_tokens, access_credentials, access_logs,
                               audit_logs, gate_calls, row_lock, response,
                               accepted_count>>

\* lines 92-111: the credential select (flushing a changed token row first),
\* the credential marked revoked, the audit row added
RevokeCredLookup(r) ==
    LET s == sessions[r]
        cred == SelectCred(s.qr.credential_id)
        mine == s.qr.credential_id # 0 /\ CredFound(s.qr.credential_id)
                /\ cred.condominium_id = s.tenant
    IN  /\ s.kind = "revoke" /\ s.pc = "cred_lookup"
        /\ s.qr_dirty => row_lock[s.token] = 0
        /\ row_lock' = IF s.qr_dirty THEN [row_lock EXCEPT ![s.token] = r]
                       ELSE row_lock
        /\ sessions' = [sessions EXCEPT ![r] =
               [s EXCEPT !.pc = "commit", !.holds_lock = s.qr_dirty,
                         !.cred = IF mine
                                  THEN [cred EXCEPT !.status = "revoked",
                                                    !.revoked_at = s.at]
                                  ELSE cred,
                         !.cred_loaded = mine,
                         !.cred_status0 = cred.status,
                         !.pending_audit = {AuditRow(r, 1, s.tenant, "revoke_qr",
                                                s.token, "success", "QR revoked")}]]
        /\ UNCHANGED <<now, qr_tokens, access_credentials, access_logs,
                       audit_logs, gate_calls, next_req, response,
                       accepted_count>>

\* lines 113-114
RevokeCommit(r) ==
    LET s == sessions[r] IN
        /\ s.kind = "revoke" /\ s.pc = "commit"
        /\ CommitTables(s)
        /\ ReleaseLock(r)
        /\ sessions' = [sessions EXCEPT ![r] = Idle]
        /\ response' = [MakeResponse(r, "revoke", Ok, s) EXCEPT !.accepted = TRUE]
        /\ UNCHANGED <<now, gate_calls, next_req, accepted_count>>

\* ------------------------------------------------------------ landing scan
\* qr_landing, lines 71-78: the status shown for a token at instant t
ScanStatus(qr, t) ==
    IF qr.revoked_at # Null THEN "revoked"
    ELSE IF qr.expires_at <= t THEN "expired"
    ELSE IF qr.max_uses # Null /\ qr.use_count >= qr.max_uses THEN "used"
    ELSE "active"

\* lines 57-78: token select (404 page when missing) and classification
ScanBegin(tok) ==
    LET r == next_req
        qr == SelectQr(tok)
        s == [Idle EXCEPT !.kind = "scan", !.token = tok,
                          !.tenant = qr.condominium_id, !.at = now]
    IN  /\ next_req <= MaxOps
        /\ next_req' = r + 1
        /\ UNCHANGED now
        /\ IF ~QrFound(tok)
           THEN Raise(MakeResponse(r, "scan", Err(404, "QR invalido"), s))
           ELSE /\ sessions' = [sessions EXCEPT ![r] =
                      [s EXCEPT !.pc = "commit", !.qr = qr, !.qr_read = qr,
                                !.scan_status = ScanStatus(qr, now)]]
                /\ UNCHANGED <<qr_tokens, access_credentials, access_logs,
                               audit_logs, gate_calls, row_lock, response,
                               accepted_count>>

\* lines 81-114: the scan_qr audit row is committed and the page returned
ScanCommit(r) ==
    LET s == sessions[r] IN
        /\ s.kind = "scan" /\ s.pc = "commit"
        /\ CommitTables([s EXCEPT !.pending_audit =
               {AuditRow(r, 1, s.tenant, "scan_qr", s.token, "success",
                         s.scan_status)}])
        /\ sessions' = [sessions EXCEPT ![r] = Idle]
        /\ response' = MakeResponse(r, "scan",
               Err(IF s.scan_status = "active" THEN 200 ELSE 410, s.scan_status), s)
        /\ UNCHANGED <<now, gate_calls, next_req, row_lock, accepted_count>>

\* ------------------------------------------------------- fast-path log-open
\* log_open, lines 61-86: the AccessLog row is added and flushed
LogOpenBeginAutocommit(tenant, access_point, success) ==
    LET r == next_req
        row == AccessRow(r, 1, tenant, "open_gate", access_point,
                         "whatsapp", 0, success)
    IN  /\ next_req <= MaxOps
        /\ next_req' = r + 1
        /\ access_logs' = access_logs \cup {row}
        /\ sessions' = [sessions EXCEPT ![r] =
               [Idle EXCEPT !.kind = "log_open", !.pc = "audit",
                            !.tenant = tenant, !.access_point = access_point,
                            !.at = now,
                            !.gate = [success |-> success, method |-> NoneStr]]]
        /\ UNCHANGED <<now, qr_tokens, access_credentials, audit_logs,
                       gate_calls, row_lock, response, accepted_count>>

LogOpenBegin(tenant, access_point, success) ==
    LET r == next_req IN
        /\ next_req <= MaxOps
        /\ next_req' = r + 1
        /\ sessions' = [sessions EXCEPT ![r] =
               [Idle EXCEPT !.kind = "log_open", !.pc = "audit",
                            !.tenant = tenant, !.access_point = access_point,
                            !.at = now,
                            !.gate = [success |-> success, method |-> NoneStr],
                            !.pending_access =
                                {AccessRow(r, 1, tenant, "open_gate", access_point,
                                           "whatsapp", 0, success)}]]
        /\ UNCHANGED <<now, qr_tokens, access_credentials, access_logs,
                       audit_logs, gate_calls, row_lock, response,
                       accepted_count>>

\* lines 88-109: the AuditLog row is added and flushed
LogOpenAudit(r) ==
    LET s == sessions[r] IN
        /\ s.kind = "log_open" /\ s.pc = "audit"
        /\ sessions' = [sessions EXCEPT ![r] =
               [s EXCEPT !.pc = "commit",
                         !.pending_audit =
                             {AuditRow(r, 1, s.tenant, "open_gate", 0,
                                       IF s.gate.success THEN "success" ELSE "failure",
                                       "open")}]]
        /\ UNCHANGED <<now, qr_tokens, access_credentials, access_logs,
                       audit_logs, gate_calls, row_lock, next_req, response,
                       accepted_count>>

\* lines 111-113
LogOpenCommit(r) ==
    LET s == sessions[r] IN
        /\ s.kind = "log_open" /\ s.pc = "commit"
        /\ CommitTables(s)
        /\ sessions' = [sessions EXCEPT ![r] = Idle]
        /\ response' = [MakeResponse(r, "log_open", Ok, s) EXCEPT !.accepted = TRUE]
        /\ UNCHANGED <<now, gate_calls, next_req, row_lock, accepted_count>>

\* ------------------------------------------- issue-visit, step by step
\* lines 281-324: validation; Visitor and AccessCredential added and flushed
\* in the request's session
IssueBegin(tenant, resident, points, valid_from_in, valid_until_in, max_uses) ==
    LET allowed == _validate_access_points(points)
        valid_from == IF valid_from_in.t # Null THEN _to_naive_utc(valid_from_in) ELSE now
        valid_until == _to_naive_utc(valid_until_in)
    IN  /\ prov.pc = "idle"
        /\ Len(qr_tokens) < MaxTokens
        /\ IF allowed = <<"invalid">> \/ valid_until <= valid_from
           THEN /\ issue_visit_qr(tenant, resident, points, valid_from_in,
                                  valid_until_in, max_uses, FALSE)
                /\ UNCHANGED issue_vars
           ELSE /\ prov' = [NoProv EXCEPT
                               !.pc = "loop",
                               !.req = [tenant |-> tenant, resident |-> resident,
                                        points |-> points,
                                        valid_from |-> valid_from_in,
                                        valid_until |-> valid_until_in,
                                        max_uses |-> max_uses],
                               !.flushed = {"visitor", "credential"}]
                /\ bio_calls' = NoBioCalls
                /\ UNCHANGED <<visitors, card_nos, returned_card_no, qr_vars>>

\* line 371: the test that ends the loop
ProvisionedOkEither(r1, r2) == r1 \/ r2

ProvisionedOk(r1, r2) == r1 /\ r2

\* lines 339-340: the next iteration draws a candidate, or the loop is over
ProvisionLoop(candidate) ==
    /\ prov.pc = "loop"
    /\ prov' = IF prov.attempts < ProvisionAttempts
               THEN [prov EXCEPT !.pc = "bio1_user",
                                 !.attempts = prov.attempts + 1,
                                 !.candidate = candidate,
                                 !.user = NoResult, !.created = NoCreated,
                                 !.r1 = FALSE, !.r2 = FALSE]
               ELSE [prov EXCEPT !.pc = "after_loop", !.candidate = NoneStr,
                                 !.created = NoCreated,
                                 !.r1 = FALSE, !.r2 = FALSE]
    /\ UNCHANGED <<bio_calls, visitors, card_nos, returned_card_no, qr_vars>>

\* lines 355-368 with create_user_and_card: the person-record request of a
\* device is answered
BioUser(reply) ==
    /\ prov.pc \in {"bio1_user", "bio2_user"}
    /\ prov' = [prov EXCEPT !.pc = IF prov.pc = "bio1_user" THEN "bio1_card"
                                   ELSE "bio2_card",
                            !.user = _request(reply)]
    /\ UNCHANGED <<bio_calls, visitors, card_nos, returned_card_no, qr_vars>>

\* the card request of a device is answered; after the second device,
\* lines 371-375
BioCard(reply) ==
    LET device == IF prov.pc = "bio1_card" THEN "hik_bio1_host" ELSE "hik_bio2_host"
        created == create_user_and_card(device, prov.user, _request(reply))
        calls == [bio_calls EXCEPT ![device] =
                     [calls |-> @.calls + 1, card_no |-> prov.candidate,
                      ok |-> created.success]]
        all_ok == \A d \in BioDevices :
                     calls[d].ok /\ calls[d].card_no = prov.candidate
                       /\ calls[d].calls = prov.attempts
    IN  /\ prov.pc \in {"bio1_card", "bio2_card"}
        /\ bio_calls' = calls
        /\ prov' =
             IF prov.pc = "bio1_card"
             THEN [prov EXCEPT !.pc = "bio2_user", !.user = NoResult,
                               !.created = created, !.r1 = created.success]
             ELSE IF ProvisionedOk(prov.r1, created.success)
             THEN [prov EXCEPT !.pc = "after_loop", !.user = NoResult,
                               !.created = created, !.r2 = created.success,
                               !.card_no = prov.candidate,
                               !.provisioned_ok = TRUE,
                               !.accepted_by_all =
                                   IF all_ok THEN @ \cup {prov.candidate} ELSE @]
             ELSE [prov EXCEPT !.pc = "loop", !.user = NoResult,
                               !.created = created, !.r2 = created.success,
                               !.accepted_by_all =
                                   IF all_ok THEN @ \cup {prov.candidate} ELSE @]
        /\ UNCHANGED <<visitors, card_nos, returned_card_no, qr_vars>>

\* lines 377-454: 502 and the rollback of get_session, or QrToken and
\* AuditLog added and everything committed
IssueFinish ==
    LET q == prov.req
        ok == prov.provisioned_ok /\ prov.card_no # NoneStr /\ prov.card_no # ""
    IN  /\ prov.pc = "after_loop"
        /\ issue_visit_qr(q.tenant, q.resident, q.points, q.valid_from,
                          q.valid_until, q.max_uses, ok)
        /\ prov' = NoProv
        /\ UNCHANGED bio_calls
        /\ IF ok
           THEN /\ visitors' = visitors + 1
                /\ card_nos' = Append(card_nos, prov.card_no)
                /\ returned_card_no' = prov.card_no
           ELSE UNCHANGED <<visitors, card_nos, returned_card_no>>

\* ---------------------------------------------------- open_gate, step by step
\* lines 69-77: open_gate(door_id) sends the strict RemoteControlDoor PUT
OpenGateCall(panel, door_id) ==
    /\ gate_client.pc \in {"idle", "done"}
    /\ gate_client' = [NoGateCall EXCEPT !.pc = "put", !.door_id = door_id,
                                         !.panel = panel,
                                         !.sent = <<"access_control">>]
    /\ UNCHANGED <<qr_vars, issue_vars, fast_vars, voice_vars, call_vars>>

\* lines 78-106: the PUT is answered; on failure the curl subprocess is started
OpenGatePut ==
    /\ gate_client.pc = "put"
    /\ gate_client' =
         IF "access_control" \in gate_client.panel
         THEN [gate_client EXCEPT !.pc = "done",
                   !.result = [success |-> TRUE, method |-> "access_control"]]
         ELSE [gate_client EXCEPT !.pc = "curl",
                   !.sent = Append(@, "curl_digest")]
    /\ UNCHANGED <<qr_vars, issue_vars, fast_vars, voice_vars, call_vars>>

\* lines 107-113: curl's http_code decides
OpenGateCurl ==
    /\ gate_client.pc = "curl"
    /\ gate_client' =
         [gate_client EXCEPT !.pc = "done",
             !.result = IF "curl_digest" \in gate_client.panel
                        THEN [success |-> TRUE, method |-> "curl_digest"]
                        ELSE [success |-> FALSE, method |-> NoneStr]]
    /\ UNCHANGED <<qr_vars, issue_vars, fast_vars, voice_vars, call_vars>>

\* ------------------------------------------- WhatsApp fast path, step by step
\* execute_fast_open, lines 75-100: the device of each target
TargetConfig(target) ==
    IF target = "vehicular_entry_panel"
    THEN [door |-> 1, xml_mode |-> "strict", access_point |-> "vehicular_entry",
          label |-> "Entrada"]
    ELSE [door |-> 1, xml_mode |-> "auto", access_point |-> "pedestrian",
          label |-> "Peatonal"]

\* _isapi_open_door, lines 151-156: the payloads tried in one pass
Bodies(xml_mode) ==
    IF xml_mode = "strict" THEN <<"strict_xml">>
    ELSE IF xml_mode = "legacy" THEN <<"legacy_xml">>
    ELSE <<"strict_xml", "legacy_xml">>

\* execute_fast_open, lines 69 and 123-125: the message for the resident
UserMessage(ok, debounced, target) ==
    IF debounced THEN "Listo. Ya se estaba abriendo."
    ELSE IF ok THEN "Listo. abierto: " \o TargetConfig(target).label
    ELSE "No se pudo abrir: " \o TargetConfig(target).label

\* the clock of the WhatsApp service advances
FastTick ==
    /\ fast_now < MaxFastTime
    /\ fast_now' = fast_now + 1
    /\ UNCHANGED <<_last_open_ts, msgs, qr_vars>>

\* the open is not recorded before the device is awaited
FastExecuteRecordLate(m, target) ==
    LET last == _last_open_ts[target] IN
        /\ msgs[m].pc = "none"
        /\ IF m = 1 THEN TRUE ELSE msgs[m - 1].pc # "none"
        /\ IF last # Null /\ last # 0 /\ (fast_now - last) < FAST_OPEN_COOLDOWN_SECONDS
           THEN msgs' = [msgs EXCEPT ![m] =
                    [NoMsg EXCEPT !.pc = "returned", !.target = target,
                                  !.start = fast_now, !.debounced = TRUE,
                                  !.ok = TRUE,
                                  !.msg = UserMessage(TRUE, TRUE, target)]]
           ELSE msgs' = [msgs EXCEPT ![m] =
                    [NoMsg EXCEPT !.pc = "put", !.target = target,
                                  !.start = fast_now, !.attempt = 1,
                                  !.body = 1]]
        /\ UNCHANGED <<fast_now, _last_open_ts, qr_vars>>

\* webhook_handler lines 117-122 and execute_fast_open lines 66-72: a matched
\* command arrives; the debounce check and the recording of the open run
\* without an await between them; then the first PUT is sent
FastExecute(m, target) ==
    LET last == _last_open_ts[target] IN
        /\ msgs[m].pc = "none"
        /\ IF m = 1 THEN TRUE ELSE msgs[m - 1].pc # "none"
        /\ IF last # Null /\ last # 0 /\ (fast_now - last) < FAST_OPEN_COOLDOWN_SECONDS
           THEN /\ msgs' = [msgs EXCEPT ![m] =
                     [NoMsg EXCEPT !.pc = "returned", !.target = target,
                                   !.start = fast_now, !.debounced = TRUE,
                                   !.ok = TRUE,
                                   !.msg = UserMessage(TRUE, TRUE, target)]]
                /\ UNCHANGED _last_open_ts
           ELSE /\ _last_open_ts' = [_last_open_ts EXCEPT ![target] = fast_now]
                /\ msgs' = [msgs EXCEPT ![m] =
                     [NoMsg EXCEPT !.pc = "put", !.target = target,
                                   !.start = fast_now, !.attempt = 1,
                                   !.body = 1]]
        /\ UNCHANGED <<fast_now, qr_vars>>

\* one pass over the payloads only (retry_once = False)
FastPutSinglePass(m, status) ==
    LET c == msgs[m]
        cfg == TargetConfig(c.target)
        bodies == Bodies(cfg.xml_mode)
        done(ok) == [c EXCEPT !.pc = "returned", !.puts = @ + 1, !.ok = ok,
                              !.msg = UserMessage(ok, FALSE, c.target),
                              !.access_point = cfg.access_point]
    IN  /\ c.pc = "put"
        /\ msgs' = [msgs EXCEPT ![m] =
               IF status \in {200, 201, 204} THEN done(TRUE)
               ELSE IF c.body < Len(bodies)
                    THEN [c EXCEPT !.puts = @ + 1, !.body = @ + 1]
               ELSE done(FALSE)]
        /\ UNCHANGED <<fast_now, _last_open_ts, qr_vars>>

\* _isapi_open_door lines 161-186 and execute_fast_open lines 116-125: one PUT
\* is answered; 200/201/204 ends the call, anything else moves on to the next
\* payload, then to the second pass (retry_once), then gives up
FastPut(m, status) ==
    LET c == msgs[m]
        cfg == TargetConfig(c.target)
        bodies == Bodies(cfg.xml_mode)
        done(ok) == [c EXCEPT !.pc = "returned", !.puts = @ + 1, !.ok = ok,
                              !.msg = UserMessage(ok, FALSE, c.target),
                              !.access_point = cfg.access_point]
    IN  /\ c.pc = "put"
        /\ msgs' = [msgs EXCEPT ![m] =
               IF status \in {200, 201, 204} THEN done(TRUE)
               ELSE IF c.body < Len(bodies)
                    THEN [c EXCEPT !.puts = @ + 1, !.body = @ + 1]
               ELSE IF c.attempt < 2
                    THEN [c EXCEPT !.puts = @ + 1, !.attempt = @ + 1, !.body = 1]
               ELSE done(FALSE)]
        /\ UNCHANGED <<fast_now, _last_open_ts, qr_vars>>

\* webhook_handler lines 126-145: the POST to /api/v1/audit/log-open fails
\* before the backend handles it; the exception is logged and swallowed
FastAuditLost(m) ==
    /\ msgs[m].pc = "returned"
    /\ msgs' = [msgs EXCEPT ![m] = [@ EXCEPT !.pc = "reply", !.audit = "error"]]
    /\ UNCHANGED <<fast_now, _last_open_ts, qr_vars>>

\* the POST reaches the backend: LogOpenRequest rejects an access_point of
\* None (422); otherwise log_open starts in a session of its own
FastAuditPost(m) ==
    LET c == msgs[m] IN
        /\ c.pc = "returned"
        /\ IF c.access_point \notin ACCESS_POINTS
           THEN /\ msgs' = [msgs EXCEPT ![m] =
                        [c EXCEPT !.pc = "reply", !.audit = "422"]]
                /\ UNCHANGED qr_vars
           ELSE /\ msgs' = [msgs EXCEPT ![m] =
                        [c EXCEPT !.pc = "await_audit", !.audit_req = next_req]]
                /\ LogOpenBegin("t1", c.access_point, c.ok)
        /\ UNCHANGED <<fast_now, _last_open_ts>>

\* the backend answered the POST
FastAuditAnswered(m) ==
    LET c == msgs[m] IN
        /\ c.pc = "await_audit"
        /\ sessions[c.audit_req].pc = "idle"
        /\ msgs' = [msgs EXCEPT ![m] = [c EXCEPT !.pc = "reply", !.audit = "200"]]
        /\ UNCHANGED <<fast_now, _last_open_ts, qr_vars>>

\* httpx.AsyncClient(timeout=2.0): the answer did not come in time
FastAuditTimeout(m) ==
    LET c == msgs[m] IN
        /\ c.pc = "await_audit"
        /\ msgs' = [msgs EXCEPT ![m] = [c EXCEPT !.pc = "reply", !.audit = "timeout"]]
        /\ UNCHANGED <<fast_now, _last_open_ts, qr_vars>>

\* the reply depends on the outcome of the audit write
FastReplyAfterAudit(m) ==
    LET c == msgs[m] IN
        /\ c.pc = "reply"
        /\ msgs' = [msgs EXCEPT ![m] =
               [c EXCEPT !.pc = "done",
                         !.reply = IF c.audit = "200" THEN c.msg
                                   ELSE "No se pudo registrar."]]
        /\ UNCHANGED <<fast_now, _last_open_ts, qr_vars>>

\* webhook_handler lines 147-149: send_text(phone, msg)
FastReply(m) ==
    LET c == msgs[m] IN
        /\ c.pc = "reply"
        /\ msgs' = [msgs EXCEPT ![m] = [c EXCEPT !.pc = "done", !.reply = c.msg]]
        /\ UNCHANGED <<fast_now, _last_open_ts, qr_vars>>

\* ------------------------------------------------- voice bridge, step by step
VoiceTick ==
    /\ voice_now < MaxVoiceTime
    /\ voice_now' = voice_now + 1
    /\ UNCHANGED <<output_audio_queue, ai_speaking, last_ai_audio_time,
                   playback_active, playout, chunks_in, chunks_dropped, played,
                   barge_in>>
    /\ UNCHANGED <<audio_vars, frame_sizes>>

\* _send_audio_to_asterisk, lines 570-581: put_nowait chunk by chunk, a chunk
\* is dropped when the queue is full
RECURSIVE PutChunks(_, _, _)
PutChunks(queue, first, n) ==
    IF n = 0 THEN queue
    ELSE PutChunks(IF Len(queue) < QueueMaxsize
                   THEN Append(queue, [id |-> first, bytes |-> chunk_bytes])
                   ELSE queue,
                   first + 1, n - 1)

\* _handle_openai_event, lines 348-355: response.audio.delta
AudioDelta(n) ==
    LET queue == PutChunks(output_audio_queue, chunks_in + 1, n) IN
        /\ chunks_in + n <= MaxChunks
        /\ ai_speaking' = TRUE
        /\ last_ai_audio_time' = voice_now
        /\ output_audio_queue' = queue
        /\ chunks_in' = chunks_in + n
        /\ chunks_dropped' = chunks_dropped + n - (Len(queue) - Len(output_audio_queue))
        /\ UNCHANGED <<voice_now, playback_active, playout, played, barge_in>>
        /\ UNCHANGED <<audio_vars, frame_sizes>>

\* lines 357-364 and 382-386: the events that end the model's turn
AudioDone(event_type) ==
    /\ event_type \in DoneEvents
    /\ ai_speaking' = FALSE
    /\ UNCHANGED <<voice_now, output_audio_queue, last_ai_audio_time,
                   playback_active, playout, chunks_in, chunks_dropped, played,
                   barge_in>>
    /\ UNCHANGED <<audio_vars, frame_sizes>>

\* the event is ignored only while the model recently spoke
SpeechStartedNoPlayoutCheck ==
    /\ barge_in.events < MaxSpeechEvents
    /\ IF ai_speaking \/ (voice_now - last_ai_audio_time) < BARGE_IN_GRACE
       THEN /\ barge_in' = [barge_in EXCEPT !.events = @ + 1,
                                            !.outcome = "ignored_recent"]
            /\ UNCHANGED <<output_audio_queue, ai_speaking>>
       ELSE /\ barge_in' = [barge_in EXCEPT !.events = @ + 1,
                                            !.outcome = "cleared",
                                            !.cleared = @ + Len(output_audio_queue)]
            /\ output_audio_queue' = <<>>
            /\ ai_speaking' = FALSE
    /\ UNCHANGED <<voice_now, last_ai_audio_time, playback_active, playout,
                   chunks_in, chunks_dropped, played>>
    /\ UNCHANGED <<audio_vars, frame_sizes>>

\* lines 366-380 and _clear_output_queue: input_audio_buffer.speech_started
SpeechStarted ==
    /\ barge_in.events < MaxSpeechEvents
    /\ IF playback_active \/ output_audio_queue # <<>>
       THEN /\ barge_in' = [barge_in EXCEPT !.events = @ + 1,
                                            !.outcome = "ignored_playback"]
            /\ UNCHANGED <<output_audio_queue, ai_speaking>>
       ELSE IF ai_speaking \/ (voice_now - last_ai_audio_time) < BARGE_IN_GRACE
       THEN /\ barge_in' = [barge_in EXCEPT !.events = @ + 1,
                                            !.outcome = "ignored_recent"]
            /\ UNCHANGED <<output_audio_queue, ai_speaking>>
       ELSE /\ barge_in' = [barge_in EXCEPT !.events = @ + 1,
                                            !.outcome = "cleared",
                                            !.cleared = @ + Len(output_audio_queue)]
            /\ output_audio_queue' = <<>>
            /\ ai_speaking' = FALSE
    /\ UNCHANGED <<voice_now, last_ai_audio_time, playback_active, playout,
                   chunks_in, chunks_dropped, played>>
    /\ UNCHANGED <<audio_vars, frame_sizes>>

\* _playback_audio, lines 661-684: not playing, a chunk is taken into the
\* prebuffer
PlayoutGet ==
    /\ playout.pc \in {"idle", "prebuffer"}
    /\ Len(playout.prebuffer) < PREBUFFER_FRAMES
    /\ output_audio_queue # <<>>
    /\ playout' = [playout EXCEPT !.pc = "prebuffer",
                                  !.prebuffer = Append(@, Head(output_audio_queue))]
    /\ output_audio_queue' = Tail(output_audio_queue)
    /\ UNCHANGED <<voice_now, ai_speaking, last_ai_audio_time, playback_active,
                   chunks_in, chunks_dropped, played, barge_in>>
    /\ UNCHANGED <<audio_vars, frame_sizes>>

\* lines 674-706: the prebuffer is full, or no chunk came for 0.3 s: playout
\* starts and the prebuffered chunks are sent
PlayoutStart ==
    /\ playout.pc = "prebuffer"
    /\ Len(playout.prebuffer) = PREBUFFER_FRAMES \/ output_audio_queue = <<>>
    /\ playout' = [pc |-> "playing", prebuffer |-> <<>>, consecutive_silence |-> 0]
    /\ playback_active' = TRUE
    /\ played' = played \o playout.prebuffer
    /\ UNCHANGED <<voice_now, output_audio_queue, ai_speaking, last_ai_audio_time,
                   chunks_in, chunks_dropped, barge_in>>
    /\ frame_sizes' = frame_sizes \cup
           {<<playout.prebuffer[i].bytes, chunk_bytes>> : i \in 1..Len(playout.prebuffer)}
    /\ UNCHANGED audio_vars

\* lines 708-757: playing, one frame period: the next chunk, or silence; too
\* much silence in a row ends the playout
PlayoutFrame ==
    /\ playout.pc = "playing"
    /\ IF output_audio_queue # <<>>
       THEN /\ output_audio_queue' = Tail(output_audio_queue)
            /\ played' = Append(played, Head(output_audio_queue))
            /\ playout' = [playout EXCEPT !.consecutive_silence = 0]
            /\ frame_sizes' = frame_sizes \cup
                   {<<Head(output_audio_queue).bytes, chunk_bytes>>}
            /\ UNCHANGED playback_active
       ELSE /\ IF playout.consecutive_silence + 1 >= MAX_SILENCE_FRAMES
               THEN /\ playout' = NoPlayout /\ playback_active' = FALSE
                    /\ UNCHANGED frame_sizes
               ELSE /\ playout' = [playout EXCEPT !.consecutive_silence = @ + 1]
                    /\ frame_sizes' = frame_sizes \cup {<<silence_chunk, chunk_bytes>>}
                    /\ UNCHANGED playback_active
            /\ UNCHANGED <<output_audio_queue, played>>
    /\ UNCHANGED <<voice_now, ai_speaking, last_ai_audio_time, chunks_in,
                   chunks_dropped, barge_in>>
    /\ UNCHANGED audio_vars

\* _detect_sample_rate: the sample rate a frame of that length stands for,
\* when it is one of the known rates (Null otherwise)
DetectedRate(len) ==
    LET detected == ((len \div BYTES_PER_SAMPLE) * 1000) \div DEFAULT_CHUNK_MS IN
        IF len % BYTES_PER_SAMPLE # 0 THEN Null
        ELSE IF detected \in {8000, 16000, 24000} THEN detected
        ELSE Null

\* the full queue drops the arriving frame
PutFrameDropNewest(buffer, frame) ==
    IF Len(buffer) < AudioBufferMaxsize THEN Append(buffer, frame) ELSE buffer

\* on_audio_from_asterisk lines 473-481: put_nowait; when the queue is full
\* the oldest frame is taken out and the new one put
PutFrame(buffer, frame) ==
    IF Len(buffer) < AudioBufferMaxsize THEN Append(buffer, frame)
    ELSE Append(Tail(buffer), frame)

\* _stream_audio lines 469-481 with _detect_sample_rate: a frame arrives from
\* the telephony side
OnAudioFromAsterisk(len) ==
    LET rate == DetectedRate(len) IN
        /\ frames_in < MaxInbound
        /\ frames_in' = frames_in + 1
        /\ detected_sample_rate' = TRUE
        /\ chunk_bytes' = IF ~detected_sample_rate /\ rate # Null
                          THEN ChunkBytes(rate) ELSE chunk_bytes
        /\ audio_buffer' = PutFrame(audio_buffer, frames_in + 1)
        /\ UNCHANGED <<voice_now, output_audio_queue, ai_speaking,
                       last_ai_audio_time, playback_active, playout, chunks_in,
                       chunks_dropped, played, barge_in, forwarded, frame_sizes>>

\* _stream_audio lines 487-494 and send_audio_to_openai: the next frame is
\* taken from the buffer and sent to the model
StreamAudio ==
    /\ audio_buffer # <<>>
    /\ audio_buffer' = Tail(audio_buffer)
    /\ forwarded' = Append(forwarded, Head(audio_buffer))
    /\ UNCHANGED <<voice_now, output_audio_queue, ai_speaking,
                   last_ai_audio_time, playback_active, playout, chunks_in,
                   chunks_dropped, played, barge_in, chunk_bytes,
                   detected_sample_rate, frames_in, frame_sizes>>

\* ------------------------------------------------- a call, from start to end
\* audio_bridge._handle_connection lines 257-292 and main._on_new_call: the
\* telephony side connects; the session is registered and its task created
NewCall ==
    /\ call.telephony = "none"
    /\ call' = [call EXCEPT !.telephony = "connected", !.bridge_session = TRUE,
                            !.active_session = TRUE, !.start = "created"]
    /\ UNCHANGED <<model_events, handler, tool_log>>

\* CallSession.stop, lines 814-835, as a change of the call record
stop(c) ==
    IF ~c.running THEN c
    ELSE [c EXCEPT !.running = FALSE,
                   !.ws = IF c.ws = "none" THEN "none" ELSE "closed",
                   !.bridge_session = FALSE]

\* CallSession.start, lines 241-274 and 288-290: the model is dialled and the
\* three tasks are created, or the connection fails and the session stops
SessionStart(connected) ==
    /\ call.start = "created"
    /\ call' = IF connected
               THEN [call EXCEPT !.start = "waiting", !.running = TRUE,
                                 !.ws = "open", !.dials = @ + 1,
                                 !.listener = "listening",
                                 !.streamer = "running", !.playback = "running"]
               ELSE [stop([call EXCEPT !.running = TRUE, !.dials = @ + 1])
                        EXCEPT !.start = "returned"]
    /\ UNCHANGED <<model_events, handler, tool_log>>

\* the model closes the socket, or the socket fails
ModelCloses ==
    /\ call.ws = "open"
    /\ call' = [call EXCEPT !.ws = "closed by peer"]
    /\ UNCHANGED <<model_events, handler, tool_log>>

\* the listener returns and nothing is stopped
ListenerReturnsNoStop ==
    /\ call.listener = "listening"
    /\ handler.pc = "idle"
    /\ call.ws # "open"
    /\ call' = [call EXCEPT !.listener = "done"]
    /\ UNCHANGED <<model_events, handler, tool_log>>

\* _listen_openai, lines 327-339: the socket is closed, the loop ends and
\* the finally clause stops the session
ListenerReturns ==
    /\ call.listener = "listening"
    /\ handler.pc = "idle"
    /\ call.ws # "open"
    /\ call' = [stop(call) EXCEPT !.listener = "done"]
    /\ UNCHANGED <<model_events, handler, tool_log>>

\* _stream_audio line 487, _playback_audio line 659: while self.running
TaskExits(task) ==
    /\ ~call.running
    /\ \/ task = "streamer" /\ call.streamer = "running"
          /\ call' = [call EXCEPT !.streamer = "done"]
       \/ task = "playback" /\ call.playback = "running"
          /\ call' = [call EXCEPT !.playback = "done"]
    /\ UNCHANGED <<model_events, handler, tool_log>>

\* CallSession.start, lines 274-286: the listener task is over; the other
\* two tasks are cancelled and awaited
StartFinishes ==
    /\ call.start = "waiting"
    /\ call.listener = "done"
    /\ call' = [call EXCEPT !.start = "returned", !.streamer = "done",
                            !.playback = "done"]
    /\ UNCHANGED <<model_events, handler, tool_log>>

\* main._run_session, lines 81-84
RunSessionEnds ==
    /\ call.start = "returned"
    /\ call' = [call EXCEPT !.start = "ended", !.active_session = FALSE]
    /\ UNCHANGED <<model_events, handler, tool_log>>

\* audio_bridge._handle_connection, lines 298-331: a hangup frame, an error
\* frame or the end of the TCP stream ends the read loop; the bridge session
\* is closed
TelephonyEnds(ending) ==
    /\ ending \in TelephonyEndings
    /\ call.telephony = "connected"
    /\ call' = [call EXCEPT !.telephony = "ended", !.bridge_session = FALSE]
    /\ UNCHANGED <<model_events, handler, tool_log>>

\* the model emits response.function_call_arguments.done
ModelEmits(arguments) ==
    /\ call.ws = "open"
    /\ Len(model_events) + Len(SelectSeq(tool_log, LAMBDA e : e.kind = "read")) < MaxCalls
    /\ model_events' = Append(model_events,
           [call_id |-> Len(SelectSeq(tool_log, LAMBDA e : e.kind = "read"))
                            + Len(model_events) + 1,
            arguments |-> arguments])
    /\ UNCHANGED <<call, handler, tool_log>>

\* the listener reads the newest event first
ListenerTakeNewest ==
    LET n == Len(model_events)
        call_id == model_events[n].call_id
        arguments == model_events[n].arguments
    IN  /\ call.listener = "listening" /\ call.running
        /\ handler.pc = "idle"
        /\ model_events # <<>>
        /\ model_events' = SubSeq(model_events, 1, n - 1)
        /\ handler' = [pc |-> IF arguments = "not_json" THEN "error" ELSE "execute",
                       call_id |-> call_id, arguments |-> arguments]
        /\ tool_log' = tool_log \o
               <<[kind |-> "read", call_id |-> call_id, error |-> FALSE]>> \o
               (IF arguments = "not_json" THEN <<>>
                ELSE <<[kind |-> "execute", call_id |-> call_id, error |-> FALSE]>>)
        /\ UNCHANGED call

\* _listen_openai lines 327-332 and _handle_function_call lines 415-431: the
\* listener reads the next event; json.loads raises, or the tool is started
ListenerTake ==
    LET call_id == Head(model_events).call_id
        arguments == Head(model_events).arguments
    IN  /\ call.listener = "listening" /\ call.running
        /\ handler.pc = "idle"
        /\ model_events # <<>>
        /\ model_events' = Tail(model_events)
        /\ handler' = [pc |-> IF arguments = "not_json" THEN "error" ELSE "execute",
                       call_id |-> call_id, arguments |-> arguments]
        /\ tool_log' = tool_log \o
               <<[kind |-> "read", call_id |-> call_id, error |-> FALSE]>> \o
               (IF arguments = "not_json" THEN <<>>
                ELSE <<[kind |-> "execute", call_id |-> call_id, error |-> FALSE]>>)
        /\ UNCHANGED call

\* lines 423-431: execute_tool returns a result, or raises
ToolReturns ==
    /\ handler.pc = "execute"
    /\ handler' = [handler EXCEPT !.pc = IF handler.arguments = "object"
                                         THEN "result" ELSE "error"]
    /\ UNCHANGED <<call, model_events, tool_log>>

\* lines 433-447: the function_call_output item, then response.create; on a
\* closed socket ws.send raises and the except clause takes over
SendResult ==
    /\ handler.pc = "result"
    /\ IF call.ws = "open"
       THEN /\ tool_log' = tool_log \o
                   <<[kind |-> "function_call_output", call_id |-> handler.call_id,
                      error |-> FALSE],
                     [kind |-> "response.create", call_id |-> 0, error |-> FALSE]>>
            /\ handler' = NoHandler
       ELSE /\ handler' = [handler EXCEPT !.pc = "error"]
            /\ UNCHANGED tool_log
    /\ UNCHANGED <<call, model_events>>

\* lines 447-458: the function_call_output item with the error; on a closed
\* socket ws.send raises out of the handler and _listen_openai (lines 336-339)
\* ends through its finally clause
SendError ==
    /\ handler.pc = "error"
    /\ handler' = NoHandler
    /\ IF call.ws = "open"
       THEN /\ tool_log' = Append(tool_log,
                   [kind |-> "function_call_output", call_id |-> handler.call_id,
                    error |-> TRUE])
            /\ UNCHANGED call
       ELSE /\ call' = [stop(call) EXCEPT !.listener = "done"]
            /\ UNCHANGED tool_log
    /\ UNCHANGED model_events

\* ------------------------------------------------ the open_gate tool
\* tools.open_gate lines 451-461: the HTTP status decides, the body is not read
ToolSuccess(status) == status \in {200, 201}

\* tools.open_gate lines 444-449 and gates.open_gate lines 37-62: the tool
\* posts to the backend, which calls open_gate on the device client
ToolOpenGatePost(panel) ==
    /\ gate_tool.pc \in {"idle", "done"}
    /\ OpenGateCall(panel, 1)
    /\ gate_tool' = [NoGateTool EXCEPT !.pc = "posted"]

\* gates.open_gate lines 41-53 and tools.open_gate lines 456-481 (demo mode
\* off): the backend answers with an error status, or not at all
ToolOpenGateFails(status) ==
    /\ gate_tool.pc \in {"idle", "done"}
    /\ gate_tool' = [pc |-> "done", status |-> status, body_success |-> FALSE,
                     success |-> ToolSuccess(status)]
    /\ UNCHANGED <<qr_vars, issue_vars, gate_client, fast_vars, voice_vars, call_vars>>

\* gates.open_gate lines 64-82: HTTP 200 with success true or false in the
\* body; tools.open_gate lines 451-455: the status decides
ToolOpenGateReturns ==
    /\ gate_tool.pc = "posted"
    /\ gate_client.pc = "done"
    /\ gate_tool' = [pc |-> "done", status |-> 200,
                     body_success |-> gate_client.result.success,
                     success |-> ToolSuccess(200)]
    /\ UNCHANGED <<qr_vars, issue_vars, gate_client, fast_vars, voice_vars, call_vars>>

\* ------------------------------------------------------------ specifications
\* a request arrives
Begin ==
    \/ \E tok \in TokenInputs, tenant \in Tenants, ap \in RequestPoints,
          dir \in Directions : ConsumeBegin(tok, tenant, ap, dir)
    \/ \E tok \in TokenInputs, tenant \in Tenants, res \in Residents :
          RevokeBegin(tok, tenant, res)
    \/ \E tok \in TokenInputs : ScanBegin(tok)
    \/ \E tenant \in IssueTenants, ok \in BOOLEAN :
          LogOpenBegin(tenant, "pedestrian", ok)

\* an open session resumes after one of its awaits
\* what the requests of the QR endpoints leave alone
QrFrame == UNCHANGED ext_vars

Step ==
    \E r \in ReqIds :
        \/ ConsumeCredLookup(r) /\ QrFrame
        \/ \E g \in GateResults : ConsumeOpenGate(r, g) /\ QrFrame
        \/ ConsumeCommit(r) /\ QrFrame
        \/ RevokeCredLookup(r) /\ QrFrame
        \/ RevokeCommit(r) /\ QrFrame
        \/ ScanCommit(r) /\ QrFrame
        \/ LogOpenAudit(r) /\ QrFrame
        \/ LogOpenCommit(r) /\ QrFrame

\* requests are served concurrently by the event loop
Next ==
    \/ Tick /\ QrFrame
    \/ Issue /\ QrFrame
    \/ (Cardinality(InFlight) < MaxInFlight /\ Begin /\ QrFrame)
    \/ Step

\* every request completes before the next one arrives
NextSeq ==
    \/ Tick /\ QrFrame
    \/ Issue /\ QrFrame
    \/ (InFlight = {} /\ Begin /\ QrFrame)
    \/ Step

Spec == Init /\ [][Next]_vars

SpecSeq == Init /\ [][NextSeq]_vars

\* one issue-visit request at a time, its awaits taken one by one
IssueFrame == UNCHANGED other_vars

NextIssue ==
    \/ \E tenant \in IssueTenants, resident \in IssueResidents,
          points \in ProvisionPoints, vf \in ValidFromInputs,
          vu \in ValidUntilInputs, mu \in ProvisionMaxUses :
            IssueBegin(tenant, resident, points, vf, vu, mu) /\ IssueFrame
    \/ \E candidate \in CardNos : ProvisionLoop(candidate) /\ IssueFrame
    \/ \E reply \in HttpReplies : BioUser(reply) /\ IssueFrame
    \/ \E reply \in HttpReplies : BioCard(reply) /\ IssueFrame
    \/ IssueFinish /\ IssueFrame

SpecIssue == Init /\ [][NextIssue]_vars

\* open_gate calls on panels of every firmware behaviour
NextGate ==
    \/ \E panel \in Panels, door_id \in DoorIds :
          OpenGateCall(panel, door_id) /\ UNCHANGED gate_tool
    \/ OpenGatePut /\ UNCHANGED gate_tool
    \/ OpenGateCurl /\ UNCHANGED gate_tool

SpecGate == Init /\ [][NextGate]_vars

\* calls of execute_fast_open, run concurrently by the event loop
FastFrame == UNCHANGED <<issue_vars, gate_client, voice_vars, call_vars, gate_tool>>

NextFast ==
    \/ FastTick /\ FastFrame
    \/ \E m \in 1..MaxMsgs, target \in FastTargets : FastExecute(m, target) /\ FastFrame
    \/ \E m \in 1..MaxMsgs, status \in FastStatuses : FastPut(m, status) /\ FastFrame

SpecFast == Init /\ [][NextFast]_vars

\* the events of one call and its playout task, interleaved by the event loop
VoiceFrame == UNCHANGED <<qr_vars, issue_vars, gate_client, fast_vars, call_vars, gate_tool>>

NextVoice ==
    \/ VoiceTick /\ VoiceFrame
    \/ \E n \in DeltaChunks : AudioDelta(n) /\ VoiceFrame
    \/ \E event_type \in DoneEvents : AudioDone(event_type) /\ VoiceFrame
    \/ SpeechStarted /\ VoiceFrame
    \/ PlayoutGet /\ VoiceFrame
    \/ PlayoutStart /\ VoiceFrame
    \/ PlayoutFrame /\ VoiceFrame

SpecVoice == Init /\ [][NextVoice]_vars

\* one call: the telephony side, the model and the tasks of the session
CallFrame == UNCHANGED <<qr_vars, issue_vars, gate_client, fast_vars, voice_vars, gate_tool>>

\* the steps the service takes by itself
CallSteps ==
    \/ \E connected \in BOOLEAN : SessionStart(connected) /\ CallFrame
    \/ ListenerReturns /\ CallFrame
    \/ \E task \in {"streamer", "playback"} : TaskExits(task) /\ CallFrame
    \/ StartFinishes /\ CallFrame
    \/ RunSessionEnds /\ CallFrame
    \/ ListenerTake /\ CallFrame
    \/ ToolReturns /\ CallFrame
    \/ SendResult /\ CallFrame
    \/ SendError /\ CallFrame

NextCall ==
    \/ NewCall /\ CallFrame
    \/ ModelCloses /\ CallFrame
    \/ \E ending \in TelephonyEndings : TelephonyEnds(ending) /\ CallFrame
    \/ \E arguments \in ToolArguments : ModelEmits(arguments) /\ CallFrame
    \/ CallSteps

SpecCall == Init /\ [][NextCall]_vars

\* the event loop runs every task that can take a step
FairCall == SpecCall /\ WF_vars(CallSteps)

\* open_gate tool calls against panels of every firmware behaviour
NextGateTool ==
    \/ \E panel \in Panels : ToolOpenGatePost(panel)
    \/ \E status \in GateErrors : ToolOpenGateFails(status)
    \/ OpenGatePut /\ UNCHANGED gate_tool
    \/ OpenGateCurl /\ UNCHANGED gate_tool
    \/ ToolOpenGateReturns

SpecGateTool == Init /\ [][NextGateTool]_vars

\* the audio path of one call: inbound frames, model audio, the playout task
NextAudio ==
    \/ \E len \in InboundLengths : OnAudioFromAsterisk(len) /\ VoiceFrame
    \/ StreamAudio /\ VoiceFrame
    \/ \E n \in DeltaChunks : AudioDelta(n) /\ VoiceFrame
    \/ PlayoutGet /\ VoiceFrame
    \/ PlayoutStart /\ VoiceFrame
    \/ PlayoutFrame /\ VoiceFrame

SpecAudio == Init /\ [][NextAudio]_vars

\* matched fast commands handled by process_message, the backend serving
\* their log-open requests
NextWebhook ==
    \/ FastTick /\ FastFrame
    \/ \E m \in 1..MaxAudited, target \in FastTargets : FastExecute(m, target) /\ FastFrame
    \/ \E m \in 1..MaxAudited, status \in FastStatuses : FastPut(m, status) /\ FastFrame
    \/ \E m \in 1..MaxAudited : FastAuditLost(m) /\ FastFrame
    \/ \E m \in 1..MaxAudited : FastAuditPost(m) /\ FastFrame
    \/ \E m \in 1..MaxAudited : FastAuditAnswered(m) /\ FastFrame
    \/ \E m \in 1..MaxAudited : FastAuditTimeout(m) /\ FastFrame
    \/ \E m \in 1..MaxAudited : FastReply(m) /\ FastFrame
    \/ \E r \in ReqIds : LogOpenAudit(r) /\ QrFrame
    \/ \E r \in ReqIds : LogOpenCommit(r) /\ QrFrame

SpecWebhook == Init /\ [][NextWebhook]_vars

\* ================================================================== claims
Issued == 1..Len(qr_tokens)
NewResponse == response'.req # response.req
GateCallsOf(tok) == {c \in gate_calls : c.token = tok}

\* C1: every issued token with a bounded max_uses has use_count <= max_uses.
C1_UseCountWithinMaxUses ==
    \A tok \in Issued :
        qr_tokens[tok].max_uses # Null
            => qr_tokens[tok].use_count <= qr_tokens[tok].max_uses

\* C2: for a token with bounded max_uses = N >= 1, at most N consume requests
\* are answered accepted=true and at most N open-door calls are made for it.
C2_AtMostNUses ==
    \A tok \in Issued :
        (qr_tokens[tok].max_uses # Null /\ qr_tokens[tok].max_uses >= 1)
            => /\ accepted_count[tok] <= qr_tokens[tok].max_uses
               /\ Cardinality(GateCallsOf(tok)) <= qr_tokens[tok].max_uses

\* C3: requests served one after the other: a consume of an unrevoked,
\* unexpired token with bounded max_uses = N at an allowed access point is
\* answered accepted=true while fewer than N consumes were accepted before
\* it, and 410 "usage limit reached" from then on.
C3_Answer ==
    LET tok == response'.token
        qr == qr_tokens[tok]
        at == IF sessions[response'.req].kind = "consume"
              THEN sessions[response'.req].at ELSE now
    IN  (/\ NewResponse
         /\ response'.kind = "consume"
         /\ tok \in Issued
         /\ qr.condominium_id = response'.tenant
         /\ qr.revoked_at = Null
         /\ qr.expires_at > at
         /\ response'.access_point \in Range(qr.allowed_access_points)
         /\ qr.max_uses # Null)
        => IF accepted_count[tok] < qr.max_uses
           THEN response'.accepted /\ response'.code = 200
           ELSE ~response'.accepted /\ response'.code = 410
                /\ response'.detail = "QR usage limit reached"

C4_Checks(tok, tenant, access_point, t) ==
    LET qr == SelectQr(tok) IN
    << [failed |-> ~(QrFound(tok) /\ qr.condominium_id = tenant),
        err |-> Err(404, "QR not found")],
       [failed |-> qr.revoked_at # Null, err |-> Err(410, "QR revoked")],
       [failed |-> qr.expires_at <= t, err |-> Err(410, "QR expired")],
       [failed |-> access_point \notin Range(qr.allowed_access_points),
        err |-> Err(403, "Access point not allowed")],
       [failed |-> qr.max_uses # Null /\ qr.use_count >= qr.max_uses,
        err |-> Err(410, "QR usage limit reached")] >>

C4_FirstFailing(tok, tenant, access_point, t) ==
    LET checks == C4_Checks(tok, tenant, access_point, t)
        failing == {i \in 1..Len(checks) : checks[i].failed}
    IN  IF failing = {} THEN Ok
        ELSE checks[CHOOSE i \in failing : \A j \in failing : i <= j].err

C4_Step ==
    /\ (NewResponse /\ response'.kind = "consume" /\ response'.code # 200)
        => Err(response'.code, response'.detail) =
             C4_FirstFailing(response'.token, response'.tenant,
                             response'.access_point, now)
    /\ \A r \in ReqIds :
         (sessions[r].pc = "idle" /\ sessions'[r].kind = "consume")
            => C4_FirstFailing(sessions'[r].token, sessions'[r].tenant,
                               sessions'[r].access_point, now) = Ok

C4_FirstFailingCheckDecides == [][C4_Step]_vars

\* a consume of a token that is both revoked and expired was answered revoked
C4_Witness ==
    /\ response.kind = "consume"
    /\ response.detail = "QR revoked"
    /\ response.token \in Issued
    /\ qr_tokens[response.token].expires_at <= now

\* C5: a rejected consume or revoke changes no token, no credential, appends
\* no AccessLog row and makes no device call.
C5_Step ==
    (NewResponse /\ response'.kind \in {"consume", "revoke"} /\ response'.code # 200)
        => /\ qr_tokens' = qr_tokens
           /\ access_credentials' = access_credentials
           /\ access_logs' = access_logs
           /\ gate_calls' = gate_calls

C5_RejectionChangesNothing == [][C5_Step]_vars

\* a revoke by a resident who did not issue the token was answered 403 and
\* the token is still unrevoked
C5_Witness ==
    /\ response.kind = "revoke"
    /\ response.code = 403
    /\ response.token \in Issued
    /\ qr_tokens[response.token].revoked_at = Null

\* C6: a consume that passed every check is answered accepted=true and
\* commits the use_count it read plus one, whether or not the device opened
\* the gate; gate_opened in the response, in the AccessLog row and in the
\* AuditLog row is the answer of the device.
C6_Step ==
    \A r \in ReqIds :
        (sessions[r].kind = "consume" /\ sessions[r].pc = "commit"
            /\ sessions'[r].pc = "idle")
        => LET s == sessions[r]
               calls == {c \in gate_calls : c.req = r}
           IN  /\ response'.req = r
               /\ response'.accepted /\ response'.code = 200
               /\ qr_tokens'[s.token].use_count = s.qr_read.use_count + 1
               /\ response'.use_count = qr_tokens'[s.token].use_count
               /\ Cardinality(calls) = 1
               /\ \A c \in calls :
                    /\ response'.gate_opened = c.success
                    /\ \E a \in access_logs' \ access_logs :
                         a.id[1] = r /\ a.gate_opened = c.success
                    /\ \E u \in audit_logs' \ audit_logs :
                         /\ u.id[1] = r
                         /\ u.gate_opened = ToString(c.success)
                         /\ u.status = IF c.success THEN "success" ELSE "failure"

C7_Step ==
    LET newA == access_logs' \ access_logs
        newU == {u \in audit_logs' \ audit_logs :
                    u.action \in {"consume_qr", "open_gate"}}
        decided == /\ NewResponse
                   /\ response'.kind \in {"consume", "log_open"}
                   /\ response'.accepted
    IN  /\ access_logs \subseteq access_logs'
        /\ audit_logs \subseteq audit_logs'
        /\ (newA # {} \/ newU # {}) => decided
        /\ decided =>
             /\ Cardinality(newA) = 1
             /\ Cardinality(newU) = 1
             /\ \A a \in newA : a.id[1] = response'.req
             /\ \A u \in newU : u.id[1] = response'.req
             /\ response'.kind = "consume" =>
                   qr_tokens'[response'.token].use_count = response'.use_count

C7_LogRowsCommittedTogether == [][C7_Step]_vars

\* a log-open call was answered after a consume had been accepted: the rows
\* of both decisions are committed
C7_Witness ==
    /\ response.kind = "log_open"
    /\ response.accepted
    /\ \E a \in access_logs : a.id[1] = response.req
    /\ \E a \in access_logs : a.authorization_method = "qr"

\* C8: a consume rejected because the token expired is answered 410, makes
\* no device call and leaves an AuditLog row with status = failure.
C8_ExpiredConsumeAudited ==
    (response.kind = "consume" /\ response.detail = "QR expired")
        => /\ response.code = 410
           /\ \A c \in gate_calls : c.req # response.req
           /\ \E u \in audit_logs :
                u.id[1] = response.req /\ u.status = "failure"

\* C9: after a completed consume or revoke the token and its credential
\* agree: same use_count; credential revoked iff the token is revoked;
\* credential used iff the token is unrevoked, bounded and used up.
C9_RecordsAgree ==
    (response.kind \in {"consume", "revoke"} /\ response.code = 200)
        => LET qr == qr_tokens[response.token]
               cred == access_credentials[qr.credential_id]
           IN  /\ cred.use_count = qr.use_count
               /\ (cred.status = "revoked") <=> (qr.revoked_at # Null)
               /\ (cred.status = "used") <=>
                    (/\ qr.revoked_at = Null
                     /\ qr.max_uses # Null
                     /\ qr.use_count >= qr.max_uses)

\* C10: a credential has status used iff its max_uses is bounded and its
\* use_count equals max_uses.
C10_UsedIffAtLimit ==
    \A cid \in 1..Len(access_credentials) :
        LET cred == access_credentials[cid] IN
        (cred.status = "used") <=>
            (cred.max_uses # Null /\ cred.use_count = cred.max_uses)

\* C11: once a revoke has succeeded on a token, the token keeps revoked_at
\* set and its credential keeps status revoked in every later state, and
\* every consume of the token that arrives afterwards (presenting the
\* token's tenant) is rejected with 410 revoked.
C11_RevokeSucceeded(tok) ==
    \E u \in audit_logs : u.action = "revoke_qr" /\ u.resource_id = tok

C11_Step ==
    /\ \A tok \in 1..Len(qr_tokens') :
         C11_RevokeSucceeded(tok)' =>
            /\ qr_tokens'[tok].revoked_at # Null
            /\ access_credentials'[qr_tokens'[tok].credential_id].status = "revoked"
    /\ \A tok \in Issued :
         (/\ C11_RevokeSucceeded(tok)
          /\ next_req' = next_req + 1
          /\ \/ (sessions'[next_req].kind = "consume" /\ sessions'[next_req].token = tok)
             \/ (response'.req = next_req /\ response'.kind = "consume"
                 /\ response'.token = tok
                 /\ response'.tenant = qr_tokens[tok].condominium_id))
         => /\ response'.req = next_req
            /\ response'.code = 410
            /\ response'.detail = "QR revoked"

C11_RevocationTerminal == [][C11_Step]_vars

\* C12: a revoke, by the issuing resident, of a token that is already
\* revoked answers revoked=true and changes nothing but the audit log, which
\* gains one row: tokens, credentials (revocation timestamps included) and
\* access logs are as the first revoke left them.
C12_Step ==
    \A r \in ReqIds :
        (/\ sessions[r].kind = "revoke" /\ sessions[r].pc = "commit"
         /\ sessions'[r].pc = "idle"
         /\ qr_tokens[sessions[r].token].revoked_at # Null)
        => /\ response'.req = r /\ response'.accepted /\ response'.code = 200
           /\ qr_tokens' = qr_tokens
           /\ access_credentials' = access_credentials
           /\ access_logs' = access_logs
           /\ audit_logs \subseteq audit_logs'
           /\ Cardinality(audit_logs' \ audit_logs) = 1

C12_SecondRevokeChangesOnlyAudit == [][C12_Step]_vars

\* C13: issue-visit makes at most 10 provisioning attempts; each attempt
\* sends one newly drawn card_no to every biometric device; the request
\* succeeds iff in some attempt all devices accepted that card_no, which is
\* the card_no persisted in the QrToken and returned; otherwise it answers
\* 502 and no visitor, credential, token or audit row of the request is
\* persisted.
C13_Tables == <<visitors, access_credentials, qr_tokens, audit_logs, card_nos>>

C13_Step ==
    /\ prov'.attempts <= ProvisionAttempts
    /\ (prov.pc = "bio2_card" /\ prov'.pc # "bio2_card")
         => \A d \in BioDevices :
               /\ bio_calls'[d].calls = prov.attempts
               /\ bio_calls'[d].card_no = prov.candidate
    /\ (prov.pc # "after_loop" /\ prov'.pc = "after_loop")
         => (prov'.accepted_by_all # {} \/ prov.attempts = ProvisionAttempts)
    /\ (prov.pc = "loop" /\ prov'.pc = "bio1_user") => prov.accepted_by_all = {}
    /\ (prov.pc = "after_loop" /\ prov'.pc = "idle")
         => IF prov.accepted_by_all # {}
            THEN /\ response'.code = 200
                 /\ returned_card_no' \in prov.accepted_by_all
                 /\ bio_calls["hik_bio1_host"].card_no = returned_card_no'
                 /\ bio_calls["hik_bio2_host"].card_no = returned_card_no'
                 /\ card_nos' = Append(card_nos, returned_card_no')
                 /\ Len(qr_tokens') = Len(qr_tokens) + 1
                 /\ Len(access_credentials') = Len(access_credentials) + 1
                 /\ visitors' = visitors + 1
                 /\ Cardinality(audit_logs' \ audit_logs) = 1
            ELSE /\ response'.code = 502
                 /\ C13_Tables' = C13_Tables
    /\ (C13_Tables' # C13_Tables)
         => (prov.pc = "after_loop" /\ response'.code = 200)

C14_Order == <<"access_control", "access_control_v2", "io_trigger",
               "alarm_output", "curl_digest">>

C14_FirstAccepted(panel) ==
    LET idx == {i \in 1..Len(C14_Order) : C14_Order[i] \in panel}
    IN  IF idx = {} THEN 0 ELSE CHOOSE i \in idx : \A j \in idx : i <= j

C14_FirstSuccessfulVariant ==
    gate_client.pc = "done"
        => LET k == C14_FirstAccepted(gate_client.panel) IN
           IF k = 0
           THEN ~gate_client.result.success
           ELSE /\ gate_client.result.success
                /\ gate_client.result.method = C14_Order[k]
                /\ gate_client.sent = SubSeq(C14_Order, 1, k)

\* C15: a device response is recognised as success iff its HTTP status is 200
\* or 204 or its JSON body has statusCode 1, and create_user_and_card reports
\* success iff the person-record response and the card response are both
\* recognised.
C15_Recognised(resp) ==
    resp.status \in {200, 204} \/ JsonStatusCode(resp.body) = 1

C15_SuccessRecognition ==
    /\ prov.pc \in {"bio1_card", "bio2_card"}
         => (_status_ok(prov.user) <=> C15_Recognised(prov.user))
    /\ prov.created.device # ""
         => (prov.created.success <=>
                (C15_Recognised(prov.created.user) /\ C15_Recognised(prov.created.card)))
\* ---- fast path
Started == {m \in 1..MaxMsgs : msgs[m].pc # "none"}

\* two calls for the same action, the second starting within the debounce
\* window of the first
C16_WithinWindow(a, b) ==
    /\ a < b
    /\ msgs[a].target = msgs[b].target
    /\ msgs[b].start - msgs[a].start < FAST_OPEN_COOLDOWN_SECONDS

C16_Debounced(b) ==
    msgs[b].debounced /\ msgs[b].ok /\ msgs[b].puts = 0 /\ msgs[b].pc # "put"

\* C16 (as stated): of any two calls for the same action that start within
\* the debounce window of each other, the later one is debounced and returns
\* without talking to the device, under every interleaving of their awaits.
C16_LaterCallDebounced ==
    \A a, b \in Started : C16_WithinWindow(a, b) => C16_Debounced(b)

\* C16 (amended): the later call is debounced when the earlier one was not
\* itself debounced, that is when the earlier one recorded the open.
C16_LaterCallDebouncedAfterAnOpen ==
    \A a, b \in Started :
        C16_WithinWindow(a, b) /\ ~msgs[a].debounced => C16_Debounced(b)

\* the second call arrived while the first was still awaiting the device
C16_Witness ==
    \E a, b \in Started :
        /\ C16_WithinWindow(a, b)
        /\ msgs[a].pc = "put" /\ msgs[a].puts = 0
        /\ msgs[b].debounced /\ msgs[b].pc = "returned"

C17_Returned(a, b) == msgs[a].pc = "returned" /\ msgs[b].pc = "returned"

\* C17 (as stated): two identical actions issued within the debounce window
\* of each other produce exactly one HTTP request to the device in total,
\* whatever the device answers; when the device accepts it both calls return
\* ok = true and the second carries debounced = true.
C17_ExactlyOneRequest ==
    \A a, b \in Started :
        C16_WithinWindow(a, b) /\ C17_Returned(a, b) =>
            /\ msgs[a].puts + msgs[b].puts = 1
            /\ msgs[a].ok => msgs[b].ok /\ msgs[b].debounced

\* the requests a call sends before it returns: every payload of its mode,
\* in at most two passes
C17_MaxPuts(a) == 2 * Len(Bodies(TargetConfig(msgs[a].target).xml_mode))

\* C17 (amended): when the first of the two is not itself debounced, the
\* second sends nothing, returns ok = true and carries debounced = true; the
\* first sends exactly one request when the device accepts it, and otherwise
\* resends: every payload of its mode, in at most two passes.
C17_OneRequestWhenAccepted ==
    \A a, b \in Started :
        C16_WithinWindow(a, b) /\ C17_Returned(a, b) /\ ~msgs[a].debounced =>
            /\ msgs[b].puts = 0 /\ msgs[b].ok /\ msgs[b].debounced
            /\ msgs[a].ok /\ msgs[a].attempt = 1 /\ msgs[a].body = 1
                   => msgs[a].puts + msgs[b].puts = 1
            /\ msgs[a].puts + msgs[b].puts \in 1..C17_MaxPuts(a)
            /\ ~msgs[a].ok => msgs[a].puts + msgs[b].puts = C17_MaxPuts(a)

\* the device accepted the only request; the second call was debounced
C17_Witness ==
    \E a, b \in Started :
        /\ C16_WithinWindow(a, b) /\ C17_Returned(a, b)
        /\ ~msgs[a].debounced /\ msgs[a].ok /\ msgs[a].puts = 1
        /\ msgs[b].debounced /\ msgs[b].start > msgs[a].start

\* ---- fast path, audit
\* a matched command that sent an open request and whose handling is over
C18_Handled(m) == msgs[m].pc = "done" /\ msgs[m].puts > 0

\* the audit row of its log-open request, recording the outcome
C18_AuditRow(m) ==
    \E row \in audit_logs :
        /\ row.id = <<msgs[m].audit_req, 1>>
        /\ row.action = "open_gate"
        /\ row.status = IF msgs[m].ok THEN "success" ELSE "failure"

\* no log-open request of the command is still being served
C18_NoWritePending(m) ==
    msgs[m].audit_req = 0 \/ sessions[msgs[m].audit_req].pc = "idle"

C18_ReplyUnchanged(m) ==
    msgs[m].reply = UserMessage(msgs[m].ok, msgs[m].debounced, msgs[m].target)

\* C18 (as stated): for every matched command that sends an open request an
\* audit row recording the outcome is eventually written (here: it is there
\* once the handler is done and no write is pending any more), and an audit
\* failure never changes the reply.
C18_AuditRowWritten ==
    \A m \in 1..MaxMsgs :
        C18_Handled(m) /\ C18_NoWritePending(m) =>
            C18_AuditRow(m) /\ C18_ReplyUnchanged(m)

\* C18 (amended): the audit row is there when the single log-open request
\* was answered; whether or not the audit write failed or timed out, the
\* reply is the message execute_fast_open returned.
C18_AuditBestEffort ==
    \A m \in 1..MaxMsgs :
        msgs[m].pc = "done" =>
            /\ C18_ReplyUnchanged(m)
            /\ msgs[m].puts > 0 /\ msgs[m].audit = "200" => C18_AuditRow(m)

\* one command was audited, another lost its audit write and got its reply
C18_Witness ==
    \E m, n \in 1..MaxMsgs :
        /\ C18_Handled(m) /\ msgs[m].audit = "200" /\ C18_AuditRow(m)
        /\ C18_Handled(n) /\ msgs[n].audit \in {"error", "timeout"}
        /\ C18_NoWritePending(n) /\ ~C18_AuditRow(n)
        /\ msgs[n].reply = msgs[n].msg

\* ---- voice bridge
\* a speech_started event is handled in this step
SpeechStartedHandled == barge_in'.events = barge_in.events + 1

\* C19: a speech_started event handled while the playout loop is Playing or
\* the output queue is non-empty leaves the queue and ai_speaking unchanged
\* and clears nothing, so every queued chunk is still played.
C19_Step ==
    SpeechStartedHandled /\ (playback_active \/ output_audio_queue # <<>>) =>
        /\ output_audio_queue' = output_audio_queue
        /\ ai_speaking' = ai_speaking
        /\ barge_in'.cleared = barge_in.cleared
        /\ played' = played

C19_BargeInIgnoredDuringPlayout == [][C19_Step]_vars

\* the event was ignored with chunks waiting, the model's turn over and the
\* grace interval passed
C19_Witness ==
    /\ barge_in.outcome = "ignored_playback"
    /\ barge_in.cleared = 0
    /\ output_audio_queue # <<>>
    /\ ~ai_speaking
    /\ voice_now - last_ai_audio_time >= BARGE_IN_GRACE

\* C20: a speech_started event handled while the playout loop is idle, the
\* output queue is empty and at least 500 ms have passed since the last
\* response.audio.delta leaves the queue empty and ai_speaking false,
\* whatever ai_speaking was before.
C20_Step ==
    /\ SpeechStartedHandled
    /\ ~playback_active
    /\ output_audio_queue = <<>>
    /\ voice_now - last_ai_audio_time >= BARGE_IN_GRACE
    => output_audio_queue' = <<>> /\ ai_speaking' = FALSE

C20_BargeInResetsAiSpeaking == [][C20_Step]_vars

\* ---- fast path, what ok = true stands for
\* an open of the same action recorded in the debounce window b falls in
\* (b itself included)
C28_OpensInWindow(b) ==
    {a \in Started :
        /\ a <= b
        /\ msgs[a].target = msgs[b].target
        /\ ~msgs[a].debounced
        /\ msgs[b].start - msgs[a].start < FAST_OPEN_COOLDOWN_SECONDS}

\* C28: whenever execute_fast_open returns ok = true, a device open request
\* for that action succeeded in the current debounce window; a command
\* repeated within the window after an open that failed is not answered with
\* ok = true.  (An open still awaiting the device counts in the claim's
\* favour here.)
C28_OkMeansOpened ==
    \A b \in Started :
        msgs[b].pc = "returned" /\ msgs[b].ok =>
            \E a \in C28_OpensInWindow(b) :
                msgs[a].pc = "put" \/ msgs[a].ok

\* ---- voice bridge, the flush
\* C29: whenever the speech_started handler reaches the flush of the output
\* queue the queue is already empty; a barge-in never removes a queued chunk.
C29_Step ==
    SpeechStartedHandled =>
        /\ barge_in'.outcome = "cleared" => output_audio_queue = <<>>
        /\ Len(output_audio_queue') = Len(output_audio_queue)
        /\ barge_in'.cleared = 0

C29_FlushFindsQueueEmpty == [][C29_Step]_vars

\* the flush was reached in a call whose audio had been queued and played
C29_Witness ==
    /\ barge_in.outcome = "cleared"
    /\ barge_in.cleared = 0
    /\ chunks_in > 0
    /\ Len(played) + chunks_dropped = chunks_in

\* ---- issue-visit, devices and database
\* the cards a device holds from the latest issue-visit request: the device
\* answered both requests of its last create_user_and_card call with success
C30_CardsOn(device) ==
    IF bio_calls[device].ok THEN {bio_calls[device].card_no} ELSE {}

\* C30: once an issue-visit request is over, every card present on a
\* biometric device is the card_no of a persisted QrToken; a request that
\* failed left no card behind.
C30_DevicesMatchDatabase ==
    prov.pc = "idle" =>
        \A device \in BioDevices : C30_CardsOn(device) \subseteq Range(card_nos)

\* ---- voice bridge, frame sizes
\* C21: every frame the playout loop writes to the telephony socket
\* (prebuffered, queued or silence) has exactly the session's current
\* chunk_bytes, also after the sample rate was detected from the first
\* inbound frame and chunk_bytes reconfigured.
C21_FramesHaveChunkBytes ==
    \A size \in frame_sizes : size[1] = size[2]

\* ---- voice bridge, inbound frames
\* C25: the input queue never holds more than its maxsize; a frame arriving
\* at a full queue displaces the oldest one and is kept, so the queue holds
\* the latest arrivals; the frames forwarded to the model are a subsequence
\* of the received frames, in arrival order.
C25_InputQueueBoundedAndOrdered ==
    /\ Len(audio_buffer) <= AudioBufferMaxsize
    /\ \A i \in 1..Len(audio_buffer) :
           audio_buffer[i] = frames_in - Len(audio_buffer) + i
    /\ \A i \in 1..Len(forwarded) : forwarded[i] \in 1..frames_in
    /\ \A i, j \in 1..Len(forwarded) : i < j => forwarded[i] < forwarded[j]
    /\ \A i \in 1..Len(forwarded), j \in 1..Len(audio_buffer) :
           forwarded[i] < audio_buffer[j]

\* a frame was forwarded, later the queue ran full and an old frame was
\* displaced by a new one
C25_Witness ==
    /\ Len(audio_buffer) = AudioBufferMaxsize
    /\ forwarded # <<>>
    /\ forwarded[Len(forwarded)] + 1 < Head(audio_buffer)

\* C27: with demo mode off, a finished open_gate tool call reports success only
\* if the device accepted one of the open-door requests of that call, and
\* reports failure whenever the backend's answer says every attempt failed.
C27_DeviceAccepted ==
    \E i \in DOMAIN gate_client.sent : gate_client.sent[i] \in gate_client.panel

C27_ToolSuccessMeansGateOpened ==
    gate_tool.pc = "done"
        => /\ gate_tool.success => C27_DeviceAccepted
           /\ (gate_tool.status = 200 /\ ~gate_tool.body_success) => ~gate_tool.success

\* C22: tool calls are executed one at a time in the order the model's events
\* arrived, their outputs are sent in that order, and the output of a call is
\* sent before the next call starts to execute.
C22_Positions(kind) == {i \in DOMAIN tool_log : tool_log[i].kind = kind}

C22_ToolCallsInArrivalOrder ==
    /\ \A kind \in {"read", "execute", "function_call_output"} :
          \A i, j \in C22_Positions(kind) :
              i < j => tool_log[i].call_id < tool_log[j].call_id
    /\ \A i, j \in C22_Positions("execute") :
          i < j => \E k \in C22_Positions("function_call_output") :
                      /\ i < k /\ k < j
                      /\ tool_log[k].call_id = tool_log[i].call_id

\* C22 witness: two calls were read, executed and answered, one after the other
C22_Witness ==
    /\ Cardinality(C22_Positions("execute")) >= 2
    /\ Cardinality(C22_Positions("function_call_output")) >= 2
    /\ \E i \in C22_Positions("execute") :
          i > 1 /\ tool_log[i - 1].kind = "read" /\ tool_log[i].call_id >= 2

\* C26: once the handler of a function call is over, the call was answered with
\* exactly one function_call_output carrying its call_id, and response.create
\* was sent right after it.
C26_Handled == {tool_log[i].call_id : i \in C22_Positions("read")}
                   \ (IF handler.pc = "idle" THEN {} ELSE {handler.call_id})

C26_EveryCallAnsweredAndContinued ==
    \A id \in C26_Handled :
        /\ Cardinality({i \in C22_Positions("function_call_output") :
                            tool_log[i].call_id = id}) = 1
        /\ \A i \in C22_Positions("function_call_output") :
              tool_log[i].call_id = id
                  => /\ i < Len(tool_log)
                     /\ tool_log[i + 1].kind = "response.create"

\* C23: once the model-event listener has returned, the session eventually is
\* closed: the input streamer and the playout loop have terminated, the
\* telephony session is unregistered from the bridge and the call is out of the
\* active-session registry; and the model is never dialled a second time.
C23_Closed ==
    /\ call.streamer = "done"
    /\ call.playback = "done"
    /\ ~call.bridge_session
    /\ ~call.active_session

C23_ListenerEndClosesSession ==
    /\ [](call.dials <= 1)
    /\ (call.listener = "done") ~> C23_Closed

\* C23 witness: the listener returned while the telephony side was still
\* connected, and the session is closed
C23_Witness ==
    /\ call.listener = "done"
    /\ call.telephony = "connected"
    /\ call.dials = 1
    /\ C23_Closed

\* C24: after the telephony side ended the call, the session eventually stops:
\* the model socket is closed, the listener, the input streamer and the playout
\* task are over and the call is out of the active-session registry.
C24_Stopped ==
    /\ call.ws # "open"
    /\ call.listener # "listening"
    /\ call.streamer # "running"
    /\ call.playback # "running"
    /\ ~call.active_session

C24_TelephonyEndStopsSession == (call.telephony = "ended") ~> C24_Stopped

====
